---- MODULE Spec2Model ----
(***************************************************************************)
(* Valence-driven conquest (src/src/tools.py, src/src/main.py): the mesh   *)
(* adjacency store (gates, valences, patches, active_vertices) and the     *)
(* three passes of a decimation level, decimating_conquest with            *)
(* retriangulation, cleaning_conquest and sew_conquest, one action per     *)
(* loop iteration of a pass.                                               *)
(*                                                                         *)
(* A vertex position is represented by the id of the input vertex that     *)
(* carries it.  Python dictionaries are functions whose DOMAIN is the set  *)
(* of keys; numpy rings are sequences (0-based chain[i] is chain[i+1]).    *)
(* An uncaught Python exception moves pc to "error".                       *)
(***************************************************************************)
EXTENDS Integers, Sequences, FiniteSets, TLC

----------------------------------------------------------------------------
(* Bounds *)

\* n-gonal bipyramids with 3 <= n <= MaxBipyramid are among the inputs
MaxBipyramid == 8
\* number of decimation levels the level driver runs on one store
MaxLevels == 2

----------------------------------------------------------------------------
(* Sequence and dictionary helpers *)

\* 1-based index of the first occurrence of x in s, 0 when absent
\* (np.where(s == x)[0][0], which raises IndexError when absent)
IndexOf(s, x) ==
  IF \E i \in 1..Len(s) : s[i] = x
  THEN CHOOSE i \in 1..Len(s) : s[i] = x /\ \A j \in 1..(i-1) : s[j] # x
  ELSE 0

Occurs(s, x) == Cardinality({i \in 1..Len(s) : s[i] = x})

\* patch[patch != x]
Without(s, x) == SelectSeq(s, LAMBDA e : e # x)

\* patch[np.where(patch == x)[0]] = y
Replace(s, x, y) == [i \in 1..Len(s) |-> IF s[i] = x THEN y ELSE s[i]]

\* i = np.where(patch == x)[0][0]; patch = patch[patch != x];
\* np.insert(patch, [i, i], [a, b])
Insert2(s, x, a, b) ==
  LET i == IndexOf(s, x)
      p == Without(s, x)
  IN  SubSeq(p, 1, i - 1) \o <<a, b>> \o SubSeq(p, i, Len(p))

\* patch[np.r_[0:k, k+1:len(patch)]] with k the 1-based index here
RemoveAt(s, k) == SubSeq(s, 1, k - 1) \o SubSeq(s, k + 1, Len(s))

\* np.append(chain[i:], chain[:i]) with i the 1-based index here
Rotate(s, i) ==
  IF i > Len(s) THEN s ELSE SubSeq(s, i, Len(s)) \o SubSeq(s, 1, i - 1)

\* d[k] = v
DictSet(d, k, v) == (k :> v) @@ d

EmptyDict == [x \in {} |-> 0]

\* d.pop(k) for a key that is present (@@ makes TLC build the table at once)
DictPop(d, k) == [x \in (DOMAIN d) \ {k} |-> d[x]] @@ EmptyDict

\* a run of assignments gates[(a, b)] = t, in order; ts is a sequence of <<a, b, t>>
\* (the test of the domain makes TLC build each table before the next assignment)
RECURSIVE SetGates(_, _)
SetGates(g, ts) ==
  IF ts = <<>> THEN g
  ELSE LET g1 == DictSet(g, <<Head(ts)[1], Head(ts)[2]>>, Head(ts)[3])
       IN IF DOMAIN g1 = {} THEN g1 ELSE SetGates(g1, Tail(ts))

\* a run of gates.pop(k), in order; TRUE in err when a key is missing (KeyError)
RECURSIVE PopGates(_, _)
PopGates(g, ks) ==
  IF ks = <<>> THEN [g |-> g, err |-> FALSE]
  ELSE IF Head(ks) \notin DOMAIN g THEN [g |-> g, err |-> TRUE]
  ELSE PopGates(DictPop(g, Head(ks)), Tail(ks))

\* variant: the valence is left as it was
Bump_kept(val, x, d) == val

\* valences[x] += d
Bump(val, x, d) == [val EXCEPT ![x] = @ + d]

\* variant: a vertex without a sign is left without one
SignIfNone_never(pm, x, s) == pm

\* variant: the sign is written whether or not the vertex has one
SignIfNone_always(pm, x, s) == DictSet(pm, x, s)

\* if plus_minus.get(x) is None: plus_minus[x] = s
SignIfNone(pm, x, s) == IF x \in DOMAIN pm THEN pm ELSE DictSet(pm, x, s)

----------------------------------------------------------------------------
(* Input meshes: closed oriented triangle meshes given as face lists *)

Tetrahedron ==
  [nv |-> 4, faces |-> << <<1,2,3>>, <<1,3,4>>, <<1,4,2>>, <<2,4,3>> >>]

\* equator 1..n, apexes n+1 and n+2
Bipyramid(n) ==
  LET nx(i) == (i % n) + 1
  IN [nv |-> n + 2,
      faces |-> [k \in 1..(2*n) |->
                   IF k <= n THEN <<n + 1, k, nx(k)>>
                   ELSE <<n + 2, nx(k - n), k - n>>]]

\* apexes 1 and 12, upper ring 2..6, lower ring 7..11
Icosahedron ==
  LET up(i) == 2 + (i % 5)
      lo(i) == 7 + (i % 5)
  IN [nv |-> 12,
      faces |-> [k \in 1..20 |->
                   IF k <= 5 THEN <<1, up(k - 1), up(k)>>
                   ELSE IF k <= 10 THEN <<up(k - 6), lo(k - 6), up(k - 5)>>
                   ELSE IF k <= 15 THEN <<lo(k - 11), lo(k - 10), up(k - 10)>>
                   ELSE <<12, lo(k - 15), lo(k - 16)>>]]

\* the 3 x 3 triangulated torus, every vertex of valence 6
Torus ==
  LET id(i, j) == 3 * (i % 3) + (j % 3) + 1
  IN [nv |-> 9,
      faces |-> [k \in 1..18 |->
                   LET c == (k - 1) \div 2
                       i == c \div 3
                       j == c % 3
                   IN IF k % 2 = 1
                        THEN <<id(i, j), id(i + 1, j), id(i + 1, j + 1)>>
                        ELSE <<id(i, j), id(i + 1, j + 1), id(i, j + 1)>>]]

\* a closed surface of genus 2 with 11 vertices and 26 faces: vertex 2 has
\* valence 8, every other vertex valence 7
DoubleTorus ==
  [nv |-> 11,
   faces |-> << <<1,5,6>>, <<1,6,7>>, <<1,7,10>>, <<1,8,5>>, <<1,9,11>>, <<1,10,9>>,
                <<1,11,8>>, <<2,3,6>>, <<2,4,3>>, <<2,5,8>>, <<2,6,9>>, <<2,7,11>>,
                <<2,8,7>>, <<2,9,5>>, <<2,11,4>>, <<3,4,10>>, <<3,7,6>>, <<3,8,11>>,
                <<3,10,8>>, <<3,11,7>>, <<4,5,10>>, <<4,6,5>>, <<4,9,6>>, <<4,11,9>>,
                <<5,9,10>>, <<7,8,10>> >>]

\* a sphere of 8 vertices with valences 4 and 5: what one level leaves of the
\* icosahedron, renumbered in ascending order
CoarseIcosahedron ==
  [nv |-> 8,
   faces |-> << <<1,2,3>>, <<1,3,4>>, <<1,4,5>>, <<1,5,2>>, <<2,5,8>>, <<2,6,3>>,
                <<2,8,6>>, <<3,6,7>>, <<3,7,4>>, <<4,7,8>>, <<4,8,5>>, <<6,8,7>> >>]

Meshes ==
  {Tetrahedron, Icosahedron, Torus, DoubleTorus, CoarseIcosahedron}
    \cup {Bipyramid(n) : n \in 3..MaxBipyramid}

----------------------------------------------------------------------------
(* preprocessing: construction of the store from the face list *)

RECURSIVE FaceGates(_)
FaceGates(fs) ==
  IF fs = <<>> THEN <<>>
  ELSE LET f == Head(fs)
       IN << <<f[1], f[2], f[3]>>, <<f[2], f[3], f[1]>>, <<f[3], f[1], f[2]>> >>
          \o FaceGates(Tail(fs))

\* the fragments (b, c), (c, a), (a, b) appended to patches[v], in file order
RECURSIVE PatchEdges(_, _)
PatchEdges(fs, v) ==
  IF fs = <<>> THEN <<>>
  ELSE LET f == Head(fs)
           e == IF f[1] = v THEN << <<f[2], f[3]>> >>
                ELSE IF f[2] = v THEN << <<f[3], f[1]>> >>
                ELSE IF f[3] = v THEN << <<f[1], f[2]>> >>
                ELSE <<>>
       IN e \o PatchEdges(Tail(fs), v)

\* while len(edges) > 1: append the end of the first edge that starts at end
RECURSIVE ChainLoop(_, _)
ChainLoop(edges, chained) ==
  IF Len(edges) <= 1 THEN [chain |-> chained, rest |-> edges]
  ELSE LET end == chained[Len(chained)]
           hit == {i \in 1..Len(edges) : edges[i][1] = end}
       IN IF hit = {} THEN [chain |-> chained, rest |-> edges]
          ELSE LET i == CHOOSE i \in hit : \A j \in hit : i <= j
               IN ChainLoop(RemoveAt(edges, i), Append(chained, edges[i][2]))

ChainedList(fs, v) ==
  LET edges == PatchEdges(fs, v)
  IN ChainLoop(Tail(edges), <<Head(edges)[1], Head(edges)[2]>>)

\* tools.py 102-256: the store the passes are written against (gates keyed by
\* vertex pairs with the third vertex as target), for an input whose vertices
\* all have a single fan; the statements 258-270 that follow are not part of it
preprocessing(m) ==
  [gates |-> SetGates(EmptyDict, FaceGates(m.faces)),
   valences |-> [v \in 1..m.nv |-> Len(PatchEdges(m.faces, v))],
   patches |-> [v \in 1..m.nv |-> ChainedList(m.faces, v).chain],
   active_vertices |-> 1..m.nv,
   vertices |-> [v \in 1..m.nv |-> v],
   faces |-> m.faces]

----------------------------------------------------------------------------
(* retriangulation: the eight cases of the patch retriangulator *)

\* variant: the face that closes the fan is not written
FrontFaces_open(front, chain, v) ==
  [i \in 1..(v - 1) |-> <<"f", front, chain[i], chain[i + 1]>>]

\* the v records f front chain[i] chain[i+1 mod v] written by every case
FrontFaces(front, chain, v) ==
  [i \in 1..v |-> <<"f", front, chain[i], chain[(i % v) + 1]>>]

\* in-place numpy write patches[x][np.where(patches[x] == front)[0]] = y
PReplace(p, x, front, y) == [p EXCEPT ![x] = Replace(@, front, y)]
\* variant: the ring keeps the removed vertex
PWithout_kept(p, x, front) == p

\* patches[x] = patches[x][patches[x] != front]
PWithout(p, x, front) == [p EXCEPT ![x] = Without(@, front)]
\* the np.where / np.insert triple on patches[x]
PInsert2(p, x, front, a, b) == [p EXCEPT ![x] = Insert2(@, front, a, b)]

RECURSIVE BumpAll(_, _, _)
BumpAll(val, xs, d) ==
  IF xs = <<>> THEN val ELSE BumpAll(Bump(val, Head(xs), d), Tail(xs), d)

RECURSIVE PWithoutAll(_, _, _)
PWithoutAll(p, xs, front) ==
  IF xs = <<>> THEN p ELSE PWithoutAll(PWithout(p, Head(xs), front), Tail(xs), front)

Retri3(chain, valences, left, right, gates, patches, front, plus_minus, obja) ==
  LET new_front == chain[2]
      left_sign == plus_minus[left]
      right_sign == plus_minus[right]
  IN [valences |-> BumpAll(valences, chain, -1),
      gates |-> SetGates(gates, << <<left, right, new_front>>,
                                   <<right, new_front, left>>,
                                   <<new_front, left, right>> >>),
      patches |-> PWithoutAll(patches, chain, front),
      plus_minus |-> SignIfNone(plus_minus, new_front,
                       IF left_sign = "+" /\ right_sign = "+" THEN "-" ELSE "+"),
      obja |-> obja \o FrontFaces(front, chain, 3)
                    \o << <<"df", chain[1], chain[2], chain[3]>> >>,
      err |-> ""]

Retri4Minus(chain, valences, left, right, gates, patches, front, plus_minus, obja) ==
  LET c1 == chain[2]
      c2 == chain[3]
  IN [plus_minus |-> SignIfNone(SignIfNone(plus_minus, c1, "+"), c2, "-"),
      gates |-> SetGates(gates, << <<left, right, c1>>, <<right, c1, left>>,
                                   <<c1, c2, left>>, <<c2, left, c1>>,
                                   <<left, c1, c2>>, <<c1, left, right>> >>),
      valences |-> Bump(Bump(valences, right, -1), c2, -1),
      patches |-> PReplace(PReplace(PWithout(PWithout(patches, right, front),
                    c2, front), left, front, c1), c1, front, left),
      obja |-> obja \o FrontFaces(front, chain, 4)
                    \o << <<"df", left, c1, c2>>, <<"df", left, c1, right>> >>,
      err |-> ""]

\* variant: the gate (c2, right) is given the target left instead of c1
Retri4Else_target(chain, valences, left, right, gates, patches, front, plus_minus, obja) ==
  LET c1 == chain[2]
      c2 == chain[3]
  IN [plus_minus |-> SignIfNone(SignIfNone(plus_minus, c1, "-"), c2, "+"),
      gates |-> SetGates(gates, << <<left, right, c2>>, <<right, c1, c2>>,
                                   <<c1, c2, right>>, <<c2, left, right>>,
                                   <<right, c2, left>>, <<c2, right, left>> >>),
      valences |-> Bump(Bump(valences, left, -1), c1, -1),
      patches |-> PReplace(PReplace(PWithout(PWithout(patches, left, front),
                    c1, front), right, front, c2), c2, front, right),
      obja |-> obja \o FrontFaces(front, chain, 4)
                    \o << <<"df", right, c2, left>>, <<"df", c2, right, c1>> >>,
      err |-> ""]

Retri4Else(chain, valences, left, right, gates, patches, front, plus_minus, obja) ==
  LET c1 == chain[2]
      c2 == chain[3]
  IN [plus_minus |-> SignIfNone(SignIfNone(plus_minus, c1, "-"), c2, "+"),
      gates |-> SetGates(gates, << <<left, right, c2>>, <<right, c1, c2>>,
                                   <<c1, c2, right>>, <<c2, left, right>>,
                                   <<right, c2, left>>, <<c2, right, c1>> >>),
      valences |-> Bump(Bump(valences, left, -1), c1, -1),
      patches |-> PReplace(PReplace(PWithout(PWithout(patches, left, front),
                    c1, front), right, front, c2), c2, front, right),
      obja |-> obja \o FrontFaces(front, chain, 4)
                    \o << <<"df", right, c2, left>>, <<"df", c2, right, c1>> >>,
      err |-> ""]

Retri5RightMinus(chain, valences, left, right, gates, patches, front, plus_minus, obja) ==
  LET c1 == chain[2]
      c2 == chain[3]
      c3 == chain[4]
      p1 == PWithout(patches, right, front)
      p2 == PInsert2(p1, c1, front, c3, left)
      p3 == PWithout(p2, c2, front)
      p4 == PReplace(p3, c3, front, c1)
      p5 == PReplace(p4, left, front, c1)
  IN [plus_minus |-> SignIfNone(SignIfNone(SignIfNone(plus_minus, c1, "+"), c2, "-"), c3, "+"),
      gates |-> SetGates(gates, << <<left, right, c1>>, <<right, c1, left>>,
                                   <<c1, c2, c3>>, <<c2, c3, c1>>, <<c3, left, c1>>,
                                   <<left, c1, c3>>, <<c1, left, right>>,
                                   <<c3, c1, c2>>, <<c1, c3, left>> >>),
      valences |-> Bump(Bump(Bump(valences, right, -1), c1, 1), c2, -1),
      patches |-> p5,
      obja |-> obja \o FrontFaces(front, chain, 5)
                    \o << <<"df", left, right, c1>>, <<"df", c1, left, c3>>,
                          <<"df", c1, c2, c3>> >>,
      err |-> IF IndexOf(p1[c1], front) = 0 THEN "IndexError" ELSE ""]

Retri5LeftMinus(chain, valences, left, right, gates, patches, front, plus_minus, obja) ==
  LET c1 == chain[2]
      c2 == chain[3]
      c3 == chain[4]
      p1 == PReplace(patches, right, front, c3)
      p2 == PReplace(p1, c1, front, c3)
      p3 == PWithout(p2, c2, front)
      p4 == PInsert2(p3, c3, front, right, c1)
      p5 == PWithout(p4, left, front)
  IN [plus_minus |-> SignIfNone(SignIfNone(SignIfNone(plus_minus, c1, "+"), c2, "-"), c3, "+"),
      gates |-> SetGates(gates, << <<left, right, c3>>, <<right, c1, c3>>,
                                   <<c1, c2, c3>>, <<c2, c3, c1>>, <<c3, left, right>>,
                                   <<right, c3, left>>, <<c3, right, c1>>,
                                   <<c3, c1, c2>>, <<c1, c3, right>> >>),
      valences |-> Bump(Bump(Bump(valences, c2, -1), c3, 1), left, -1),
      patches |-> p5,
      obja |-> obja \o FrontFaces(front, chain, 5)
                    \o << <<"df", left, right, c3>>, <<"df", c1, right, c3>>,
                          <<"df", c1, c2, c3>> >>,
      err |-> IF IndexOf(p3[c3], front) = 0 THEN "IndexError" ELSE ""]

Retri5Else(chain, valences, left, right, gates, patches, front, plus_minus, obja) ==
  LET c1 == chain[2]
      c2 == chain[3]
      c3 == chain[4]
      p1 == PReplace(patches, right, front, c2)
      p2 == PWithout(p1, c1, front)
      p3 == PInsert2(p2, c2, front, left, right)
      p4 == PWithout(p3, c3, front)
      p5 == PReplace(p4, left, front, c2)
  IN [plus_minus |-> SignIfNone(SignIfNone(SignIfNone(plus_minus, c1, "-"), c2, "+"), c3, "-"),
      gates |-> SetGates(gates, << <<left, right, c2>>, <<right, c1, c2>>,
                                   <<c1, c2, right>>, <<c2, c3, left>>, <<c3, left, c2>>,
                                   <<right, c2, left>>, <<c2, right, c1>>,
                                   <<c2, left, right>>, <<left, c2, c3>> >>),
      valences |-> Bump(Bump(Bump(valences, c1, -1), c2, 1), c3, -1),
      patches |-> p5,
      obja |-> obja \o FrontFaces(front, chain, 5)
                    \o << <<"df", left, right, c2>>, <<"df", c1, right, c2>>,
                          <<"df", left, c2, c3>> >>,
      err |-> IF IndexOf(p2[c2], front) = 0 THEN "IndexError" ELSE ""]

Retri6RightMinus(chain, valences, left, right, gates, patches, front, plus_minus, obja) ==
  LET c1 == chain[2]
      c2 == chain[3]
      c3 == chain[4]
      c4 == chain[5]
      p1 == PWithout(patches, right, front)
      p2 == PInsert2(p1, c1, front, c3, left)
      p3 == PWithout(p2, c2, front)
      p4 == PInsert2(p3, c3, front, left, c1)
      p5 == PWithout(p4, c4, front)
      p6 == PInsert2(p5, left, front, c1, c3)
  IN [plus_minus |-> SignIfNone(SignIfNone(SignIfNone(SignIfNone(plus_minus,
                       c1, "+"), c2, "-"), c3, "+"), c4, "-"),
      gates |-> SetGates(gates, << <<left, right, c1>>, <<right, c1, left>>,
                                   <<c1, c2, c3>>, <<c2, c3, c1>>,
                                   <<c3, c4, left>>, <<c4, left, c3>>,
                                   <<left, c1, c3>>, <<c1, left, right>>,
                                   <<c3, c1, c2>>, <<c1, c3, left>>,
                                   <<left, c3, c4>>, <<c3, left, c1>> >>),
      valences |-> Bump(Bump(Bump(Bump(Bump(Bump(valences, right, -1), c1, 1),
                     c2, -1), c3, 1), c4, -1), left, 1),
      patches |-> p6,
      obja |-> obja \o FrontFaces(front, chain, 6)
                    \o << <<"df", left, right, c1>>, <<"df", c1, c3, c2>>,
                          <<"df", c3, left, c4>> >>,
      err |-> IF \/ IndexOf(p1[c1], front) = 0
                 \/ IndexOf(p3[c3], front) = 0
                 \/ IndexOf(p5[left], front) = 0
              THEN "IndexError" ELSE ""]

Retri6Else(chain, valences, left, right, gates, patches, front, plus_minus, obja) ==
  LET c1 == chain[2]
      c2 == chain[3]
      c3 == chain[4]
      c4 == chain[5]
      p1 == PInsert2(patches, right, front, c2, c4)
      p2 == PWithout(p1, c1, front)
      p3 == PInsert2(p2, c2, front, c4, right)
      p4 == PWithout(p3, c3, front)
      p5 == PInsert2(p4, c4, front, right, c2)
      p6 == PWithout(p5, left, front)
  IN [plus_minus |-> SignIfNone(SignIfNone(SignIfNone(SignIfNone(plus_minus,
                       c1, "-"), c2, "+"), c3, "-"), c4, "+"),
      gates |-> SetGates(gates, << <<left, right, c4>>, <<right, c1, c2>>,
                                   <<c1, c2, right>>, <<c2, c3, c4>>,
                                   <<c3, c4, c2>>, <<c4, left, right>>,
                                   <<right, c4, left>>, <<c4, right, c2>>,
                                   <<c4, c2, c3>>, <<c2, c4, right>>,
                                   <<right, c2, c4>>, <<c2, right, c1>> >>),
      valences |-> Bump(Bump(Bump(Bump(Bump(Bump(valences, right, 1), c1, -1),
                     c2, 1), c3, -1), c4, 1), left, -1),
      patches |-> p6,
      obja |-> obja \o FrontFaces(front, chain, 6)
                    \o << <<"df", c2, right, c1>>, <<"df", c2, c3, c4>>,
                          <<"df", c4, left, right>> >>,
      err |-> IF \/ IndexOf(patches[right], front) = 0
                 \/ IndexOf(p2[c2], front) = 0
                 \/ IndexOf(p4[c4], front) = 0
              THEN "IndexError" ELSE ""]

\* plus_minus[left] and plus_minus[right] are read first (KeyError when unset);
\* chain[i] beyond the stored ring is an IndexError; a valence outside 3..6
\* matches no branch and everything is returned as it came
retriangulation(chain, valences, left, right, gates, patches, front, plus_minus, obja) ==
  LET valence == valences[front]
      same == [valences |-> valences, gates |-> gates, patches |-> patches,
               plus_minus |-> plus_minus, obja |-> obja, err |-> ""]
  IN IF left \notin DOMAIN plus_minus \/ right \notin DOMAIN plus_minus
       THEN [same EXCEPT !.err = "KeyError"]
     ELSE IF valence \notin 3..6 THEN same
     ELSE IF Len(chain) < valence THEN [same EXCEPT !.err = "IndexError"]
     ELSE LET right_sign == plus_minus[right]
              left_sign == plus_minus[left]
          IN CASE valence = 3 ->
                    Retri3(chain, valences, left, right, gates, patches, front, plus_minus, obja)
               [] valence = 4 /\ right_sign = "-" ->
                    Retri4Minus(chain, valences, left, right, gates, patches, front, plus_minus, obja)
               [] valence = 4 /\ right_sign # "-" ->
                    Retri4Else(chain, valences, left, right, gates, patches, front, plus_minus, obja)
               [] valence = 5 /\ right_sign = "-" ->
                    Retri5RightMinus(chain, valences, left, right, gates, patches, front, plus_minus, obja)
               [] valence = 5 /\ right_sign # "-" /\ left_sign = "-" ->
                    Retri5LeftMinus(chain, valences, left, right, gates, patches, front, plus_minus, obja)
               [] valence = 5 /\ right_sign # "-" /\ left_sign # "-" ->
                    Retri5Else(chain, valences, left, right, gates, patches, front, plus_minus, obja)
               [] valence = 6 /\ right_sign = "-" ->
                    Retri6RightMinus(chain, valences, left, right, gates, patches, front, plus_minus, obja)
               [] valence = 6 /\ right_sign # "-" ->
                    Retri6Else(chain, valences, left, right, gates, patches, front, plus_minus, obja)

----------------------------------------------------------------------------
(* State *)

VARIABLES
  gates,             \* dict (a, b) -> third vertex of the face left of a -> b
  valences,          \* dict vertex -> number of incident faces
  patches,           \* dict vertex -> ring of neighbours
  active_vertices,   \* set of vertices not yet removed
  vertices,          \* list of positions, vertices[v] the position of vertex v
  faces,             \* the input face list
  fifo,              \* the gate queue of the running pass
  faces_status,      \* dict gate -> "conquered" | "null" of the running pass
  vertices_status,   \* the vertices tagged 'conquered' by the running pass
  plus_minus,        \* dict vertex -> "+" | "-" of the running Decimating pass
  done,              \* the gates Cleaning has already dequeued
  stale_i,           \* Cleaning's local i, 0 while unbound
  sew_todo,          \* the vertices Sew has still to examine
  obja_iter,         \* the pass buffer
  count_v_iter,      \* the per-pass V counter
  obj_to_obja_iter,  \* dict per-pass V number -> vertex
  obja,              \* the cumulative stream
  count_v,           \* the driver's V counter
  obj_to_obja,       \* dict final V index -> vertex
  current_it,        \* the driver's level counter
  pc,                \* position of the run
  exception,         \* the uncaught exception that ended the run, "" if none
  entry,             \* the caller: "simplify_mesh", or "passes" (the level body alone)
  h_last,            \* history: the last vertex removal of the running pass
  h_removed,         \* history: the vertices removed by the running pass
  h_start,           \* history: patches and gates at the start of the running pass
  h_chi,             \* history: 6 * (V - E + F) of the store after preprocessing
  h_steps,           \* history: FIFO entries dequeued by the running pass
  h_dequeued,        \* history: the gates dequeued by the running Decimating pass
  run,               \* 1 in a run, 2 in the run that repeats it under the same seed
  h_seed,            \* history: the first gates random.choice drew in run 1
  h_run1,            \* history: what run 1 left behind, <<>> until it has ended
  pre                \* the locals of preprocessing

store == <<gates, valences, patches, active_vertices, vertices, faces>>
passlocal == <<fifo, faces_status, vertices_status, plus_minus, done, stale_i, sew_todo>>
buffer == <<obja_iter, count_v_iter, obj_to_obja_iter>>
driver == <<obja, count_v, obj_to_obja, current_it>>
history == <<h_last, h_removed, h_start, h_chi>>
replay == <<run, h_seed, h_run1>>
vars == <<store, passlocal, buffer, driver, pc, exception, entry, history, h_steps, h_dequeued, replay, pre>>

NoRemoval == [pass |-> "none"]

\* an uncaught exception: the run ends where it stands
Raise(e) ==
  /\ pc' = "error"
  /\ exception' = e
  /\ UNCHANGED <<store, passlocal, buffer, driver, entry, pre, replay, history>>

\* the locals of preprocessing once every line is read and every patch ordered
Returned(index) ==
  [lines |-> <<>>, todo |-> <<>>, lists |-> {}, last |-> <<>>, index |-> index,
   edges_vertices |-> <<>>, edges_faces |-> <<>>]

Init ==
  /\ \E m \in Meshes :
       LET s == preprocessing(m)
       IN /\ gates = s.gates
          /\ valences = s.valences
          /\ patches = s.patches
          /\ active_vertices = s.active_vertices
          /\ vertices = s.vertices
          /\ faces = s.faces
          /\ count_v = Len(s.vertices) + 1
          /\ h_start = [patches |-> s.patches, gates |-> s.gates]
          /\ h_chi = 6 * Cardinality(s.active_vertices) - Cardinality(DOMAIN s.gates)
          /\ pre = Returned(Len(s.vertices) + 1)
  /\ fifo = <<>>
  /\ faces_status = EmptyDict
  /\ vertices_status = {}
  /\ plus_minus = EmptyDict
  /\ done = {}
  /\ stale_i = 0
  /\ sew_todo = <<>>
  /\ obja_iter = <<>>
  /\ count_v_iter = 1
  /\ obj_to_obja_iter = EmptyDict
  /\ obja = <<>>
  /\ obj_to_obja = EmptyDict
  /\ current_it = 0
  /\ h_steps = 0
  /\ h_dequeued = {}
  /\ run = 1
  /\ h_seed = <<>>
  /\ h_run1 = <<>>
  /\ pc = "level"
  /\ exception = ""
  /\ entry \in {"simplify_mesh", "passes"}
  /\ h_last = NoRemoval
  /\ h_removed = {}

----------------------------------------------------------------------------
(* simplify_mesh: the level loop *)

\* main.py 36
MinActive == 10
\* the nb_iterations argument of simplify_mesh
nb_iterations == MaxLevels + 1

\* main.py 36: the level runs while enough vertices and iterations are left;
\* the passes called on their own run the level body on any store
RunLevel ==
  /\ current_it < MaxLevels
  /\ entry = "simplify_mesh" =>
       Cardinality(active_vertices) >= MinActive /\ current_it < nb_iterations - 1

----------------------------------------------------------------------------
(* decimating_conquest *)

\* variant: the generator is not seeded
Seeded_free(first_gate) == TRUE

\* tools.py 286: random.choice under the seed the caller has set draws in the
\* second run what it drew in the first
Seeded(first_gate) == run = 2 => (h_seed # <<>> /\ first_gate = Head(h_seed))

\* main.py 38-42 and tools.py 280-292: fresh pass state, a random first gate
DecimatingBegin ==
  /\ pc = "level"
  /\ h_steps' = 0
  /\ h_dequeued' = {}
  /\ RunLevel
  /\ IF DOMAIN gates = {}
       THEN Raise("IndexError")
       ELSE \E first_gate \in DOMAIN gates :
              /\ Seeded(first_gate)
              /\ h_seed' = IF run = 1 THEN Append(h_seed, first_gate)
                           ELSE IF h_seed = <<>> THEN <<>> ELSE Tail(h_seed)
              /\ plus_minus' = DictSet(DictSet(EmptyDict, first_gate[1], "-"),
                                       first_gate[2], "+")
              /\ fifo' = <<first_gate>>
              /\ faces_status' = EmptyDict
              /\ vertices_status' = {}
              /\ obja_iter' = <<>>
              /\ count_v_iter' = 1
              /\ obj_to_obja_iter' = EmptyDict
              /\ pc' = "decimating"
              /\ h_last' = NoRemoval
              /\ h_removed' = {}
              /\ h_start' = [patches |-> patches, gates |-> gates]
              /\ UNCHANGED <<store, done, stale_i, sew_todo, driver, exception, entry, pre, h_chi, run, h_run1>>

\* fifo.append((c[i+1], c[i])) for the consecutive pairs of the rotated ring
RingGates(chain) == [k \in 1..(Len(chain) - 1) |-> <<chain[k + 1], chain[k]>>]

\* faces_status[(c[i], c[i+1])] = 'conquered' for the same pairs
RECURSIVE MarkConquered(_, _)
MarkConquered(fs, gs) ==
  IF gs = <<>> THEN fs
  ELSE MarkConquered(DictSet(fs, <<Head(gs)[2], Head(gs)[1]>>, "conquered"), Tail(gs))

\* variant: only the key (front, vertex) is popped
RECURSIVE SpokeGates_oneway(_, _)
SpokeGates_oneway(front, chain) ==
  IF chain = <<>> THEN <<>>
  ELSE << <<front, Head(chain)>> >> \o SpokeGates_oneway(front, Tail(chain))

\* the keys (front, vertex), (vertex, front) popped for every vertex of the ring
RECURSIVE SpokeGates(_, _)
SpokeGates(front, chain) ==
  IF chain = <<>> THEN <<>>
  ELSE << <<front, Head(chain)>>, <<Head(chain), front>> >> \o SpokeGates(front, Tail(chain))

Elems(s) == {s[i] : i \in 1..Len(s)}

\* tools.py 311-340: the free-vertex case
DecimatingFree(gate, front, vs) ==
  LET left == gate[1]
      right == gate[2]
      ring == patches[front]
      i == IndexOf(ring, right)
      chain == Rotate(ring, i)
      popped == PopGates(gates, SpokeGates(front, chain))
      r == retriangulation(chain, valences, left, right, popped.g, patches, front,
                           plus_minus, Append(obja_iter, <<"v", vertices[front]>>))
  IN IF i = 0 THEN Raise("IndexError")
     ELSE IF front \notin active_vertices \/ popped.err THEN Raise("KeyError")
     ELSE IF r.err # "" THEN Raise(r.err)
       ELSE /\ vertices_status' = vs \cup Elems(ring)
            /\ fifo' = Tail(fifo) \o RingGates(chain)
            /\ faces_status' = MarkConquered(faces_status, RingGates(chain))
            /\ active_vertices' = active_vertices \ {front}
            /\ obj_to_obja_iter' = DictSet(obj_to_obja_iter, count_v_iter, front)
            /\ count_v_iter' = count_v_iter + 1
            /\ gates' = r.gates
            /\ valences' = r.valences
            /\ patches' = r.patches
            /\ plus_minus' = r.plus_minus
            /\ obja_iter' = r.obja
            /\ h_last' = [pass |-> "decimating", front |-> front, chain |-> chain,
                          left |-> left, right |-> right,
                          valence |-> valences[front],
                          left_sign |-> plus_minus[left],
                          right_sign |-> plus_minus[right],
                          gates |-> gates, plus_minus |-> plus_minus,
                          obja |-> obja_iter]
            /\ h_removed' = h_removed \cup {front}
            /\ UNCHANGED <<vertices, faces, done, stale_i, sew_todo, driver, pc, exception, entry, pre, replay, h_start, h_chi>>

\* variant: the null-face case enqueues the two other gates of its own face
NullGates_inner(gate, front) == << <<gate[2], front>>, <<front, gate[1]>> >>

\* variant: the null-face case enqueues nothing
NullGates_none(gate, front) == <<>>

\* tools.py 352-353: the two other edges of the face behind the gate
NullGates(gate, front) == << <<front, gate[2]>>, <<gate[1], front>> >>

\* variant: the valence of the target is not looked at
IsFree_anyvalence(front, vs) == front \notin vs

\* variant: the status of the target is not looked at
IsFree_anystatus(front, vs) == valences[front] <= 6

\* tools.py 311: the target can be removed
IsFree(front, vs) == valences[front] <= 6 /\ front \notin vs

\* variant: the null-face case does not tag the gate
DecimatingNull_untagged(gate, front, vs) ==
  /\ vertices_status' = vs
  /\ faces_status' = faces_status
  /\ plus_minus' = SignIfNone(plus_minus, front, "+")
  /\ fifo' = Tail(fifo) \o NullGates(gate, front)
  /\ UNCHANGED <<store, done, stale_i, sew_todo, buffer, driver, pc, exception, entry, pre, replay, history>>

\* tools.py 342-353: the null-face case
DecimatingNull(gate, front, vs) ==
  /\ vertices_status' = vs
  /\ faces_status' = DictSet(faces_status, gate, "null")
  /\ plus_minus' = SignIfNone(plus_minus, front, "+")
  /\ fifo' = Tail(fifo) \o NullGates(gate, front)
  /\ UNCHANGED <<store, done, stale_i, sew_todo, buffer, driver, pc, exception, entry, pre, replay, history>>

\* tools.py 295-356: one iteration of the FIFO loop
DecimatingStep ==
  /\ pc = "decimating"
  /\ h_steps' = h_steps + 1
  /\ fifo # <<>>
  /\ h_dequeued' = h_dequeued \cup {Head(fifo)}
  /\ LET gate == Head(fifo)
         vs == vertices_status \cup {gate[1], gate[2]}
     IN IF gate \notin DOMAIN gates
          THEN Raise("KeyError")
          ELSE LET front == gates[gate]
               IN IF gate \in DOMAIN faces_status
                    THEN /\ fifo' = Tail(fifo)
                         /\ vertices_status' = vs
                         /\ UNCHANGED <<store, faces_status, plus_minus, done, stale_i,
                                        sew_todo, buffer, driver, pc, exception,
                                        entry, pre, replay, history>>
                  ELSE IF IsFree(front, vs)
                    THEN DecimatingFree(gate, front, vs)
                  ELSE DecimatingNull(gate, front, vs)

\* the pass buffer written behind the stream instead of in front of it
UpdateObja_behind ==
  /\ obj_to_obja' = [k \in (DOMAIN obj_to_obja)
                            \cup {count_v - j : j \in 1..(count_v_iter - 1)} |->
                       IF \E j \in 1..(count_v_iter - 1) : k = count_v - j
                         THEN obj_to_obja_iter[count_v_iter - (count_v - k)]
                         ELSE obj_to_obja[k]]
  /\ count_v' = count_v - (count_v_iter - 1)
  /\ obja' = obja \o obja_iter

\* the indices of a pass handed out in the reverse of the emission order
UpdateObja_reversed ==
  /\ obj_to_obja' = [k \in (DOMAIN obj_to_obja)
                            \cup {count_v - j : j \in 1..(count_v_iter - 1)} |->
                       IF \E j \in 1..(count_v_iter - 1) : k = count_v - j
                         THEN obj_to_obja_iter[count_v - k]
                         ELSE obj_to_obja[k]]
  /\ count_v' = count_v - (count_v_iter - 1)
  /\ obja' = obja_iter \o obja

\* main.py 44-50: the mapping and the stream take the pass buffer
UpdateObja ==
  /\ obj_to_obja' = [k \in (DOMAIN obj_to_obja)
                            \cup {count_v - j : j \in 1..(count_v_iter - 1)} |->
                       IF \E j \in 1..(count_v_iter - 1) : k = count_v - j
                         THEN obj_to_obja_iter[count_v_iter - (count_v - k)]
                         ELSE obj_to_obja[k]]
  /\ count_v' = count_v - (count_v_iter - 1)
  /\ obja' = obja_iter \o obja

\* tools.py 358 and main.py 44-56: the pass returns, the driver turns to Cleaning
DecimatingReturn ==
  /\ pc = "decimating"
  /\ UNCHANGED <<h_steps, h_dequeued>>
  /\ fifo = <<>>
  /\ UpdateObja
  /\ pc' = "cleaning"
  /\ UNCHANGED <<store, passlocal, buffer, current_it, exception, entry, pre, replay, history>>

----------------------------------------------------------------------------
(* cleaning_conquest *)

\* "for vertex in active_vertices" visits the ids in ascending order
RECURSIVE Ascending(_)
Ascending(S) ==
  IF S = {} THEN <<>>
  ELSE LET m == CHOOSE x \in S : \A y \in S : x <= y
       IN <<m>> \o Ascending(S \ {m})

\* main.py 52-59 and tools.py 755-770: fresh pass state, the ring of the first
\* active vertex of valence 3 gives the first gate; without one the pass
\* returns None, which the driver cannot unpack
CleaningBegin ==
  /\ pc = "cleaning"
  /\ h_steps' = 0
  /\ h_dequeued' = {}
  /\ LET cand == {v \in active_vertices : valences[v] = 3}
     IN IF cand = {} THEN Raise("TypeError")
        ELSE LET vertex == CHOOSE v \in cand : \A w \in cand : v <= w
                 chain == patches[vertex]
             IN IF Len(chain) < 2 THEN Raise("IndexError")
                ELSE /\ fifo' = <<<<chain[1], chain[2]>>>>
                     /\ faces_status' = EmptyDict
                     /\ vertices_status' = {}
                     /\ done' = {}
                     /\ stale_i' = 0
                     /\ obja_iter' = <<>>
                     /\ count_v_iter' = 1
                     /\ obj_to_obja_iter' = EmptyDict
                     /\ pc' = "cleaning_loop"
                     /\ h_last' = NoRemoval
                     /\ h_removed' = {}
                     /\ h_start' = [patches |-> patches, gates |-> gates]
                     /\ UNCHANGED <<store, plus_minus, sew_todo, driver, exception, entry, pre, replay, h_chi>>

\* variant: the FIFO keeps the gates of the removed vertex
Purge_none(queue, front) == queue

\* tools.py 797-799: the gates with front as an endpoint leave the FIFO
Purge(queue, front) == SelectSeq(queue, LAMBDA g : g[1] # front /\ g[2] # front)

\* tools.py 791-839: removal of a valence-3 vertex
CleaningRemove(gate, front) ==
  LET chain == patches[front]
      purged == Purge(Tail(fifo), front)
      popped == PopGates(gates, SpokeGates(front, chain))
  IN IF front \notin active_vertices \/ popped.err THEN Raise("KeyError")
     ELSE IF Len(chain) < 3 THEN Raise("IndexError")
     ELSE LET g3 == SetGates(popped.g, << <<chain[1], chain[2], chain[3]>>,
                                          <<chain[2], chain[3], chain[1]>>,
                                          <<chain[3], chain[1], chain[2]>> >>)
          IN IF <<chain[2], chain[1]>> \notin DOMAIN g3
                \/ <<chain[3], chain[2]>> \notin DOMAIN g3
               THEN Raise("KeyError")
             ELSE LET front_1 == g3[<<chain[2], chain[1]>>]
                      front_2 == g3[<<chain[3], chain[2]>>]
                  IN /\ active_vertices' = active_vertices \ {front}
                     /\ fifo' = purged \o << <<front_1, chain[1]>>, <<chain[2], front_1>>,
                                             <<front_2, chain[2]>>, <<chain[3], front_2>> >>
                     /\ obja_iter' = obja_iter \o << <<"v", vertices[front]>> >>
                                               \o FrontFaces(front, chain, 3)
                     /\ obj_to_obja_iter' = DictSet(obj_to_obja_iter, count_v_iter, front)
                     /\ count_v_iter' = count_v_iter + 1
                     /\ valences' = BumpAll(valences, chain, -1)
                     /\ gates' = g3
                     /\ patches' = PWithoutAll(patches, chain, front)
                     /\ vertices_status' = vertices_status \cup Elems(chain)
                     /\ faces_status' = DictSet(DictSet(faces_status,
                                          <<chain[2], chain[1]>>, "conquered"),
                                          <<chain[3], chain[2]>>, "conquered")
                     /\ done' = done \cup {gate}
                     /\ h_last' = [pass |-> "cleaning", front |-> front, chain |-> chain,
                                   left |-> gate[1], right |-> gate[2],
                                   valence |-> valences[front],
                                   gates |-> gates, obja |-> obja_iter]
                     /\ h_removed' = h_removed \cup {front}
                     /\ UNCHANGED <<vertices, faces, plus_minus, stale_i, sew_todo,
                                    driver, pc, exception, entry, pre, replay, h_start, h_chi>>

\* tools.py 842-853: the walk-through case; when right is not in the ring the
\* IndexError is caught and i keeps the value of an earlier iteration
CleaningWalk(gate, front) ==
  LET ring == patches[front]
      found == IndexOf(ring, gate[2])
      i == IF found # 0 THEN found ELSE stale_i
      chain == Rotate(ring, i)
  IN IF i = 0 THEN Raise("UnboundLocalError")
     ELSE /\ stale_i' = i
          /\ fifo' = Tail(fifo) \o RingGates(chain)
          /\ faces_status' = MarkConquered(faces_status, RingGates(chain))
          /\ done' = done \cup {gate}
          /\ UNCHANGED <<store, vertices_status, plus_minus, sew_todo, buffer, driver,
                         pc, exception, entry, pre, replay, history>>

\* tools.py 855-864: the null-face case
CleaningNull(gate, front) ==
  /\ faces_status' = DictSet(faces_status, gate, "null")
  /\ fifo' = Tail(fifo) \o NullGates(gate, front)
  /\ done' = done \cup {gate}
  /\ UNCHANGED <<store, vertices_status, plus_minus, stale_i, sew_todo, buffer, driver,
                 pc, exception, entry, pre, replay, history>>

\* variant: the status of the target is not looked at
IsCleanable_anystatus(front) == valences[front] = 3

\* tools.py 791: the target is removed by Cleaning
IsCleanable(front) == valences[front] = 3 /\ front \notin vertices_status

\* tools.py 773-864: one iteration of the FIFO loop
CleaningStep ==
  /\ pc = "cleaning_loop"
  /\ h_steps' = h_steps + 1
  /\ UNCHANGED h_dequeued
  /\ fifo # <<>>
  /\ LET gate == Head(fifo)
     IN IF gate \in done
          THEN /\ fifo' = Tail(fifo)
               /\ UNCHANGED <<store, faces_status, vertices_status, plus_minus, done,
                              stale_i, sew_todo, buffer, driver, pc, exception, entry, pre, replay,
                              history>>
        ELSE IF gate \notin DOMAIN gates THEN Raise("KeyError")
        ELSE LET front == gates[gate]
             IN IF gate \in DOMAIN faces_status
                  THEN /\ fifo' = Tail(fifo)
                       /\ done' = done \cup {gate}
                       /\ UNCHANGED <<store, faces_status, vertices_status, plus_minus,
                                      stale_i, sew_todo, buffer, driver, pc, exception,
                                      entry, pre, replay, history>>
                ELSE IF IsCleanable(front)
                  THEN CleaningRemove(gate, front)
                ELSE IF valences[front] <= 6 /\ front \notin vertices_status
                  THEN CleaningWalk(gate, front)
                ELSE CleaningNull(gate, front)

\* tools.py 865 and main.py 60-71: the pass returns, the driver turns to Sew
CleaningReturn ==
  /\ pc = "cleaning_loop"
  /\ UNCHANGED <<h_steps, h_dequeued>>
  /\ fifo = <<>>
  /\ UpdateObja
  /\ pc' = "sew"
  /\ UNCHANGED <<store, passlocal, buffer, current_it, exception, entry, pre, replay, history>>

----------------------------------------------------------------------------
(* sew_conquest *)

\* main.py 68-74 and tools.py 901: fresh buffer, the sweep over a copy of the active set
SewBegin ==
  /\ pc = "sew"
  /\ UNCHANGED <<h_steps, h_dequeued>>
  /\ sew_todo' = Ascending(active_vertices)
  /\ obja_iter' = <<>>
  /\ count_v_iter' = 1
  /\ obj_to_obja_iter' = EmptyDict
  /\ pc' = "sew_loop"
  /\ h_last' = NoRemoval
  /\ h_removed' = {}
  /\ h_start' = [patches |-> patches, gates |-> gates]
  /\ UNCHANGED <<store, fifo, faces_status, vertices_status, plus_minus, done, stale_i,
                 driver, exception, entry, pre, replay, h_chi>>

\* patch[k-1] for the 1-based k here: index -1 wraps to the last entry
Pred(patch, k) == IF k = 1 THEN patch[Len(patch)] ELSE patch[k - 1]


\* tools.py 904-946: an exception other than KeyError leaves the try block in
\* the middle of a removal; the store keeps what the lines before it have
\* written, the buffer of the driver is not assigned
SewCrash(e, act, g, p, val) ==
  /\ pc' = "error"
  /\ exception' = e
  /\ active_vertices' = act
  /\ gates' = g
  /\ patches' = p
  /\ valences' = val
  /\ UNCHANGED <<vertices, faces, passlocal, buffer, driver, entry, pre, replay, history>>

\* tools.py 904-909 and 949-950: a gates.pop of a missing key raises KeyError,
\* which is caught; the vertex has left the active set, the pops before the
\* missing one are done, and the sweep goes on
SewCaught(vertex, chain, g) ==
  /\ active_vertices' = active_vertices \ {vertex}
  /\ gates' = g
  /\ sew_todo' = Tail(sew_todo)
  /\ h_last' = [pass |-> "sew_keyerror", front |-> vertex, chain |-> chain,
                gates |-> gates, obja |-> obja_iter]
  /\ UNCHANGED <<valences, patches, vertices, faces, fifo, faces_status,
                 vertices_status, plus_minus, done, stale_i, buffer,
                 driver, pc, exception, entry, pre, replay, h_removed, h_start, h_chi>>

\* tools.py 902-950: one vertex of the sweep.  A KeyError of a gates.pop is
\* caught and the sweep goes on with what was changed before it; an IndexError
\* or the TypeError of int() on an empty array is not caught
SewStep ==
  /\ pc = "sew_loop"
  /\ UNCHANGED <<h_steps, h_dequeued>>
  /\ sew_todo # <<>>
  /\ LET vertex == Head(sew_todo)
         chain == patches[vertex]
     IN IF valences[vertex] # 2
          THEN /\ sew_todo' = Tail(sew_todo)
               /\ UNCHANGED <<store, fifo, faces_status, vertices_status, plus_minus,
                              done, stale_i, buffer, driver, pc, exception, entry, pre, replay, history>>
        ELSE IF Len(chain) = 0
          THEN SewCrash("IndexError", active_vertices \ {vertex}, gates, patches, valences)
        ELSE IF Len(chain) = 1
          THEN LET first == PopGates(gates, << <<chain[1], vertex>> >>)
               IN IF first.err THEN SewCaught(vertex, chain, first.g)
                  ELSE SewCrash("IndexError", active_vertices \ {vertex}, first.g,
                                patches, valences)
        ELSE
          LET c0 == chain[1]
              c1 == chain[2]
              popped == PopGates(gates, << <<c0, vertex>>, <<c1, vertex>>,
                                           <<vertex, c0>>, <<vertex, c1>> >>)
              pa1 == Without(patches[c0], vertex)
              ka == IndexOf(pa1, c1)
              p1 == [patches EXCEPT ![c0] = RemoveAt(pa1, ka)]
              pb1 == Without(p1[c1], vertex)
              kb == IndexOf(pb1, c0)
              p2 == [p1 EXCEPT ![c1] = RemoveAt(pb1, kb)]
              k0 == IndexOf(p2[c0], c1)
              k1 == IndexOf(p2[c1], c0)
          IN IF popped.err THEN SewCaught(vertex, chain, popped.g)
             ELSE IF ka = 0
               THEN SewCrash("IndexError", active_vertices \ {vertex}, popped.g,
                             [patches EXCEPT ![c0] = pa1], valences)
             ELSE IF kb = 0
               THEN SewCrash("IndexError", active_vertices \ {vertex}, popped.g,
                             [p1 EXCEPT ![c1] = pb1], Bump(valences, c0, -2))
             ELSE IF k0 = 0
               THEN SewCrash("TypeError", active_vertices \ {vertex}, popped.g, p2,
                             Bump(Bump(valences, c0, -2), c1, -2))
             ELSE IF k1 = 0
               THEN SewCrash("TypeError", active_vertices \ {vertex},
                             SetGates(popped.g, << <<c1, c0, Pred(p2[c0], k0)>> >>), p2,
                             Bump(Bump(valences, c0, -2), c1, -2))
             ELSE /\ active_vertices' = active_vertices \ {vertex}
                  /\ gates' = SetGates(popped.g, << <<c1, c0, Pred(p2[c0], k0)>>,
                                                    <<c0, c1, Pred(p2[c1], k1)>> >>)
                  /\ patches' = p2
                  /\ valences' = Bump(Bump(valences, c0, -2), c1, -2)
                  /\ obja_iter' = obja_iter \o
                       << <<"v", vertices[vertex]>>, <<"f", vertex, c0, c1>>,
                          <<"df", c0, c1, Pred(p2[c0], k0)>>,
                          <<"df", c0, c1, Pred(p2[c1], k1)>> >>
                  /\ obj_to_obja_iter' = DictSet(obj_to_obja_iter, count_v_iter, vertex)
                  /\ count_v_iter' = count_v_iter + 1
                  /\ sew_todo' = Tail(sew_todo)
                  /\ h_last' = [pass |-> "sew", front |-> vertex, chain |-> chain,
                                gates |-> gates, obja |-> obja_iter]
                  /\ h_removed' = h_removed \cup {vertex}
                  /\ UNCHANGED <<vertices, faces, fifo, faces_status, vertices_status,
                                 plus_minus, done, stale_i, driver, pc, exception, entry, pre, replay,
                                 h_start, h_chi>>

\* the insertion order of the patches dictionary: first appearance in the face list
PatchOrder ==
  LET flat == [k \in 1..(3 * Len(faces)) |-> faces[((k - 1) \div 3) + 1][((k - 1) % 3) + 1]]
      keys == Elems(flat)
      first(v) == IndexOf(flat, v)
  IN [k \in 1..Cardinality(keys) |->
        CHOOSE v \in keys : Cardinality({w \in keys : first(w) <= first(v)}) = k]

\* copy.sort(); copy[np.where(np.diff(copy) == 0)[0]][0]
SmallestRepeated(chain) ==
  CHOOSE x \in Elems(chain) :
    /\ Occurs(chain, x) > 1
    /\ \A y \in Elems(chain) : Occurs(chain, y) > 1 => x <= y

\* tools.py 958-965: popitem takes the last key; its partner is popped by value
RECURSIVE PinchLoop(_, _)
PinchLoop(keys, verts) ==
  IF keys = <<>> THEN [vertices |-> verts, err |-> FALSE]
  ELSE LET left == keys[Len(keys)]
           right == SmallestRepeated(patches[left])
           rest == SubSeq(keys, 1, Len(keys) - 1)
       IN IF right \notin Elems(rest) THEN [vertices |-> verts, err |-> TRUE]
          ELSE PinchLoop(Without(rest, right),
                         verts \o <<verts[left], verts[right]>>)

\* tools.py 952-968 and main.py 75-85: the pinch step, the return and the
\* driver's bookkeeping at the end of the level
SewReturn ==
  /\ pc = "sew_loop"
  /\ UNCHANGED <<h_steps, h_dequeued>>
  /\ sew_todo = <<>>
  /\ LET to_duplicate == SelectSeq(PatchOrder,
                           LAMBDA v : Cardinality(Elems(patches[v])) # Len(patches[v]))
         r == PinchLoop(to_duplicate, vertices)
     IN IF r.err
          THEN /\ pc' = "error"
               /\ exception' = "KeyError"
               /\ vertices' = r.vertices
               /\ UNCHANGED <<gates, valences, patches, active_vertices, faces, passlocal,
                              buffer, driver, entry, pre, replay, history>>
        ELSE /\ vertices' = r.vertices
             /\ UpdateObja
             /\ current_it' = current_it + 1
             /\ pc' = "level"
             /\ UNCHANGED <<gates, valences, patches, active_vertices, faces, passlocal,
                            buffer, exception, entry, pre, replay, history>>

----------------------------------------------------------------------------
(* simplify_mesh: the end of the run *)

\* tools.py 878-897: one f record per face whose three gates are found in the
\* copy; gs is the iteration order over the gate table
RECURSIVE LastFaces(_, _)
LastFaces(gs, local_copy) ==
  IF gs = <<>> THEN <<>>
  ELSE LET gate == Head(gs)
           left == gate[1]
           right == gate[2]
       IN IF gate \notin DOMAIN local_copy THEN LastFaces(Tail(gs), local_copy)
          ELSE LET front == local_copy[gate]
                   l1 == DictPop(local_copy, gate)
               IN IF <<right, front>> \notin DOMAIN l1 THEN LastFaces(Tail(gs), l1)
                  ELSE LET l2 == IF l1[<<right, front>>] = left
                                   THEN DictPop(l1, <<right, front>>) ELSE l1
                       IN IF <<front, left>> \notin DOMAIN l2 THEN LastFaces(Tail(gs), l2)
                          ELSE LET l3 == IF l2[<<front, left>>] = right
                                           THEN DictPop(l2, <<front, left>>) ELSE l2
                               IN << <<"f", left, right, front>> >>
                                  \o LastFaces(Tail(gs), l3)

\* the gate table is walked in ascending key order
RECURSIVE GateOrder(_)
GateOrder(S) ==
  IF S = {} THEN <<>>
  ELSE LET m == CHOOSE g \in S : \A h \in S :
                  g[1] < h[1] \/ (g[1] = h[1] /\ g[2] <= h[2])
       IN <<m>> \o GateOrder(S \ {m})

\* tools.py 867-898
write_last_obja ==
  LET act == Ascending(active_vertices)
  IN [obj_f |-> [k \in 1..Len(act) |-> <<"v", vertices[act[k]]>>]
                \o LastFaces(GateOrder(DOMAIN gates), gates),
      a |-> [k \in 1..Len(act) |-> act[k]]]

\* main.py 87-94: the residual mesh is written in front of the stream and the run ends
WriteLast ==
  /\ pc = "level"
  /\ UNCHANGED <<h_steps, h_dequeued>>
  /\ entry = "simplify_mesh"
  /\ ~RunLevel
  /\ LET w == write_last_obja
     IN /\ obja' = w.obj_f \o obja
        /\ obj_to_obja' = w.a @@ obj_to_obja
  /\ pc' = "done"
  /\ UNCHANGED <<store, passlocal, buffer, count_v, current_it, exception, entry, pre, replay, history>>

Next ==
  \/ DecimatingBegin
  \/ DecimatingStep
  \/ DecimatingReturn
  \/ CleaningBegin
  \/ CleaningStep
  \/ CleaningReturn
  \/ SewBegin
  \/ SewStep
  \/ SewReturn
  \/ WriteLast

Spec == Init /\ [][Next]_vars

----------------------------------------------------------------------------
(* The same input run a second time under the same seed *)

\* the run has ended: the driver returned, the level body called on its own
\* returned, or an exception went uncaught
Finished ==
  \/ pc \in {"done", "error"}
  \/ pc = "level" /\ entry = "passes" /\ ~RunLevel

\* what a run leaves behind: the store, the streams and mappings, and how it ended
Outcome ==
  [gates |-> gates, valences |-> valences, patches |-> patches,
   active_vertices |-> active_vertices, vertices |-> vertices,
   obja |-> obja, obj_to_obja |-> obj_to_obja, count_v |-> count_v,
   obja_iter |-> obja_iter, obj_to_obja_iter |-> obj_to_obja_iter,
   current_it |-> current_it, pc |-> pc, exception |-> exception]

\* the caller runs the same entry point again on the same face list, with the
\* generator seeded as before
SecondRun ==
  /\ run = 1
  /\ Finished
  /\ run' = 2
  /\ h_run1' = Outcome
  /\ LET s == preprocessing([nv |-> Len(valences), faces |-> faces])
     IN /\ gates' = s.gates
        /\ valences' = s.valences
        /\ patches' = s.patches
        /\ active_vertices' = s.active_vertices
        /\ vertices' = s.vertices
        /\ count_v' = Len(s.vertices) + 1
        /\ h_start' = [patches |-> s.patches, gates |-> s.gates]
  /\ fifo' = <<>>
  /\ faces_status' = EmptyDict
  /\ vertices_status' = {}
  /\ plus_minus' = EmptyDict
  /\ done' = {}
  /\ stale_i' = 0
  /\ sew_todo' = <<>>
  /\ obja_iter' = <<>>
  /\ count_v_iter' = 1
  /\ obj_to_obja_iter' = EmptyDict
  /\ obja' = <<>>
  /\ obj_to_obja' = EmptyDict
  /\ current_it' = 0
  /\ h_steps' = 0
  /\ h_dequeued' = {}
  /\ pc' = "level"
  /\ exception' = ""
  /\ h_last' = NoRemoval
  /\ h_removed' = {}
  /\ UNCHANGED <<faces, entry, pre, h_chi, h_seed>>

NextTwoRuns ==
  \/ Next
  \/ SecondRun

TwoRuns == Init /\ [][NextTwoRuns]_vars

----------------------------------------------------------------------------
(* preprocessing, statement by statement: the file is read line by line, the
   patches are ordered vertex by vertex, then the gate table is rebuilt *)

\* two tetrahedra that share vertex 1 and nothing else
TwoTetrahedra ==
  [nv |-> 7,
   faces |-> << <<1,2,3>>, <<1,3,4>>, <<1,4,2>>, <<2,4,3>>,
                <<1,5,6>>, <<1,6,7>>, <<1,7,5>>, <<5,7,6>> >>]

\* the tetrahedron with its first face listed a second time
DoubledFace ==
  [nv |-> 4, faces |-> Tetrahedron.faces \o << <<1,2,3>> >>]

\* the tetrahedron with its last face listed in the opposite orientation
FlippedFace ==
  [nv |-> 4, faces |-> << <<1,2,3>>, <<1,3,4>>, <<1,4,2>>, <<2,3,4>> >>]

ObjFiles == Meshes \cup {TwoTetrahedra, DoubledFace, FlippedFace}

\* tools.py 102-121 and main.py 16-28: the v lines are read, no f line yet
InitRead ==
  /\ \E m \in ObjFiles :
       /\ active_vertices = 1..m.nv
       /\ vertices = [v \in 1..m.nv |-> v]
       /\ pre = [lines |-> m.faces, todo |-> <<>>, lists |-> {}, last |-> <<>>,
                 index |-> m.nv + 1, edges_vertices |-> <<>>, edges_faces |-> <<>>]
  /\ gates = EmptyDict
  /\ valences = EmptyDict
  /\ patches = EmptyDict
  /\ faces = <<>>
  /\ count_v = 0
  /\ h_start = [patches |-> EmptyDict, gates |-> EmptyDict]
  /\ h_chi = 0
  /\ fifo = <<>>
  /\ faces_status = EmptyDict
  /\ vertices_status = {}
  /\ plus_minus = EmptyDict
  /\ done = {}
  /\ stale_i = 0
  /\ sew_todo = <<>>
  /\ obja_iter = <<>>
  /\ count_v_iter = 1
  /\ obj_to_obja_iter = EmptyDict
  /\ obja = <<>>
  /\ obj_to_obja = EmptyDict
  /\ current_it = 0
  /\ h_steps = 0
  /\ h_dequeued = {}
  /\ run = 1
  /\ h_seed = <<>>
  /\ h_run1 = <<>>
  /\ pc = "read"
  /\ exception = ""
  /\ entry = "simplify_mesh"
  /\ h_last = NoRemoval
  /\ h_removed = {}

\* if x not in valences: valences[x] = 1 else: valences[x] += 1
Count(val, x) ==
  IF x \in DOMAIN val THEN [val EXCEPT ![x] = @ + 1] ELSE DictSet(val, x, 1)

\* if x not in patches: patches[x] = [e] else: patches[x].append(e)
AddEdge(p, x, e) ==
  IF x \in DOMAIN p THEN [p EXCEPT ![x] = Append(@, e)] ELSE DictSet(p, x, <<e>>)

\* the keys of patches in insertion order: first appearance in the face list
FirstSeen(fs) ==
  LET flat == [k \in 1..(3 * Len(fs)) |-> fs[((k - 1) \div 3) + 1][((k - 1) % 3) + 1]]
      keys == Elems(flat)
      first(v) == IndexOf(flat, v)
  IN [k \in 1..Cardinality(keys) |->
        CHOOSE v \in keys : Cardinality({w \in keys : first(w) <= first(v)}) = k]

\* tools.py 124-161: one f line.  The three gates are assigned whether or not
\* they are keys already
ReadFace ==
  /\ pc = "read"
  /\ pre.lines # <<>>
  /\ LET f == Head(pre.lines)
         a == f[1]
         b == f[2]
         c == f[3]
         rest == Tail(pre.lines)
         p3 == AddEdge(AddEdge(AddEdge(patches, a, <<b, c>>), b, <<c, a>>), c, <<a, b>>)
     IN /\ faces' = Append(faces, f)
        /\ gates' = SetGates(gates, << <<a, b, c>>, <<b, c, a>>, <<c, a, b>> >>)
        /\ valences' = Count(Count(Count(valences, a), b), c)
        /\ patches' = p3
        /\ pre' = [pre EXCEPT !.lines = rest, !.last = f, !.lists = DOMAIN p3,
                              !.todo = IF rest = <<>> THEN FirstSeen(Append(faces, f))
                                       ELSE <<>>]
        /\ pc' = IF rest = <<>> THEN "order" ELSE "read"
  /\ UNCHANGED <<active_vertices, vertices, passlocal, buffer, driver, exception,
                 entry, history, h_steps, h_dequeued, replay>>

\* list.remove(e): the first entry equal to e goes
RemoveFirst(s, e) == RemoveAt(s, IndexOf(s, e))

\* tools.py 236-242: the loop of the new chain has no else: when no edge starts
\* at end, edge is the last one the for loop saw, and that one is removed
RECURSIVE NewChainLoop(_, _)
NewChainLoop(edges, chain) ==
  IF Len(edges) <= 1 THEN [chain |-> chain, rest |-> edges]
  ELSE LET end == chain[Len(chain)]
           hit == {i \in 1..Len(edges) : edges[i][1] = end}
       IN IF hit = {} THEN NewChainLoop(RemoveFirst(edges, edges[Len(edges)]), chain)
          ELSE LET i == CHOOSE i \in hit : \A j \in hit : i <= j
               IN NewChainLoop(RemoveAt(edges, i), Append(chain, edges[i][2]))

\* tools.py 248-250: gates.pop((point, vertex)) and gates.pop((vertex, point))
\* come back under the new vertex; err when a key is missing (KeyError)
RECURSIVE MoveGates(_, _, _, _)
MoveGates(g, chain, vertex, new) ==
  IF chain = <<>> THEN [g |-> g, err |-> FALSE]
  ELSE LET point == Head(chain)
       IN IF <<point, vertex>> \notin DOMAIN g THEN [g |-> g, err |-> TRUE]
          ELSE LET g1 == DictSet(DictPop(g, <<point, vertex>>), <<point, new>>,
                                 g[<<point, vertex>>])
               IN IF <<vertex, point>> \notin DOMAIN g1 THEN [g |-> g1, err |-> TRUE]
                  ELSE MoveGates(DictSet(DictPop(g1, <<vertex, point>>), <<new, point>>,
                                         g1[<<vertex, point>>]),
                                 Tail(chain), vertex, new)

\* tools.py 220-233 for one of a, b, c: append works on a list only; a patch
\* that was ordered already is an array (AttributeError)
AppendEdge(r, x, e) ==
  IF r.err THEN r
  ELSE IF x \in DOMAIN r.p /\ x \notin pre.lists THEN [r EXCEPT !.err = TRUE]
  ELSE [r EXCEPT !.p = AddEdge(r.p, x, e)]

\* tools.py 182-254: more than one chain at the vertex.  A new vertex takes the
\* edges that are left; a, b, c are still those of the last f line; the patch
\* of the vertex itself is not assigned and stays the list of leftover edges
SplitFan(vertex, edges) ==
  LET new == pre.index
      a == pre.last[1]
      b == pre.last[2]
      c == pre.last[3]
      g1 == SetGates(gates, [k \in 1..Len(edges) |-> <<edges[k][1], edges[k][2], new>>])
      v1 == DictSet([valences EXCEPT ![vertex] = @ - Len(edges)], new, Len(edges))
      v2 == Count(Count(Count(v1, a), b), c)
      first == Head(edges)
      p0 == [patches EXCEPT ![vertex] = Tail(edges)]
      r == AppendEdge(AppendEdge(AppendEdge([p |-> p0, err |-> FALSE],
                        a, <<b, c>>), b, <<c, a>>), c, <<a, b>>)
      nc == NewChainLoop(r.p[vertex], <<first[1], first[2]>>)
      moved == MoveGates(g1, nc.chain, vertex, new)
  IN IF r.err THEN Raise("AttributeError")
     ELSE IF moved.err THEN Raise("KeyError")
     ELSE /\ vertices' = Append(vertices, vertices[vertex])
          /\ active_vertices' = active_vertices \cup {new}
          /\ gates' = moved.g
          /\ valences' = v2
          /\ patches' = DictSet([r.p EXCEPT ![vertex] = nc.rest], new, nc.chain)
          /\ pre' = [pre EXCEPT !.todo = Tail(pre.todo), !.index = new + 1,
                                !.lists = DOMAIN r.p]
          /\ pc' = IF Tail(pre.todo) = <<>> THEN "rearrange" ELSE "order"
          /\ UNCHANGED <<faces, passlocal, buffer, driver, exception, entry, history,
                         replay>>

\* tools.py 164-256: the patch of one vertex is chained into a ring
OrderPatch ==
  /\ pc = "order"
  /\ pre.todo # <<>>
  /\ UNCHANGED <<h_steps, h_dequeued>>
  /\ LET vertex == Head(pre.todo)
         edges == patches[vertex]
     IN IF edges = <<>> THEN Raise("IndexError")
        ELSE LET r == ChainLoop(Tail(edges), <<Head(edges)[1], Head(edges)[2]>>)
             IN IF Len(r.rest) > 1 THEN SplitFan(vertex, r.rest)
                ELSE /\ patches' = [patches EXCEPT ![vertex] = r.chain]
                     /\ pre' = [pre EXCEPT !.todo = Tail(pre.todo),
                                           !.lists = pre.lists \ {vertex}]
                     /\ pc' = IF Tail(pre.todo) = <<>> THEN "rearrange" ELSE "order"
                     /\ UNCHANGED <<gates, valences, active_vertices, vertices, faces,
                                    passlocal, buffer, driver, exception, entry,
                                    history, replay>>

\* tools.py 263-268 for one gate: the key is turned round when b is in the
\* ring of a, and the value is the 0-based place of one end in the ring of the
\* other; 0 for the place when list.index finds nothing (ValueError)
Rearranged(g) ==
  LET a == g[1]
      b == g[2]
  IN IF Occurs(patches[a], b) > 0
       THEN [key |-> <<b, a>>, place |-> IndexOf(patches[b], a)]
       ELSE [key |-> <<a, b>>, place |-> IndexOf(patches[a], b)]

\* tools.py 258-268: the arrays edges_vertices and edges_faces.  A patch that
\* is still a list of edges cannot be searched for a vertex
Rearrange ==
  /\ pc = "rearrange"
  /\ UNCHANGED <<h_steps, h_dequeued>>
  /\ LET gs == GateOrder(DOMAIN gates)
         rs == [k \in 1..Len(gs) |-> Rearranged(gs[k])]
     IN IF \E g \in DOMAIN gates : g[1] \in pre.lists \/ g[2] \in pre.lists
          THEN Raise("ValueError")
        ELSE IF \E k \in 1..Len(gs) : rs[k].place = 0
          THEN Raise("ValueError")
        ELSE /\ pre' = [pre EXCEPT !.edges_vertices = [k \in 1..Len(gs) |-> rs[k].key],
                                   !.edges_faces = [k \in 1..Len(gs) |-> rs[k].place - 1]]
             /\ pc' = "zip"
             /\ UNCHANGED <<store, passlocal, buffer, driver, exception, entry,
                            history, replay>>

\* tools.py 271-275 and main.py 28-32: the rows of edges_vertices are arrays,
\* which dict() cannot hash (TypeError); only an empty table gets through
ReturnStore ==
  /\ pc = "zip"
  /\ UNCHANGED <<h_steps, h_dequeued>>
  /\ IF pre.edges_vertices # <<>> THEN Raise("TypeError")
     ELSE /\ gates' = EmptyDict
          /\ count_v' = Len(vertices) + 1
          /\ pc' = "level"
          /\ UNCHANGED <<valences, patches, active_vertices, vertices, faces, passlocal,
                         buffer, obja, obj_to_obja, current_it, exception, entry,
                         history, replay, pre>>

NextConstruction ==
  \/ ReadFace
  \/ OrderPatch
  \/ Rearrange
  \/ ReturnStore

Construction == InitRead /\ [][NextConstruction]_vars

----------------------------------------------------------------------------
(* Properties *)

\* the states between two passes: after preprocessing, after Decimating,
\* after Cleaning, after Sew, and after the residual mesh is written
Between == pc \in {"level", "cleaning", "sew", "done"}

\* a face up to rotation: the rotation that starts at its smallest vertex
Canon(f) ==
  IF f[1] <= f[2] /\ f[1] <= f[3] THEN <<f[1], f[2], f[3]>>
  ELSE IF f[2] <= f[1] /\ f[2] <= f[3] THEN <<f[2], f[3], f[1]>>
  ELSE <<f[3], f[1], f[2]>>

Corners(f) == {f[1], f[2], f[3]}

\* replay of a record stream front to back: v adds a vertex, f adds a face,
\* df deletes the face it names (the face with the same rotation if there is
\* one, otherwise the face on the same three vertices)
RECURSIVE Replay(_, _, _)
Replay(recs, V, F) ==
  IF recs = <<>> THEN [V |-> V, F |-> F]
  ELSE LET r == Head(recs)
       IN IF r[1] = "v" THEN Replay(Tail(recs), V \cup {r[2]}, F)
          ELSE LET face == Canon(<<r[2], r[3], r[4]>>)
                   same == {f \in F : Corners(f) = Corners(face)}
               IN IF r[1] = "f" THEN Replay(Tail(recs), V, F \cup {face})
                  ELSE IF face \in F THEN Replay(Tail(recs), V, F \ {face})
                  ELSE Replay(Tail(recs), V, F \ same)

\* C1: when simplify_mesh has written the residual mesh in front of the
\* per-pass records, replaying the stream front to back ends with exactly the
\* vertices and the faces (up to rotation) of the input mesh
RoundTrip ==
  pc = "done" =>
    LET r == Replay(obja, {}, {})
    IN /\ r.V = Elems(vertices)
       /\ r.F = {Canon(faces[i]) : i \in 1..Len(faces)}

\* the faces of the case table for (valence, sign(right), sign(left)), with
\* c[i] the ring rotated so that c[0] = right
TableFaces(h) ==
  LET l == h.left
      r == h.right
      c1 == h.chain[2]
      c2 == h.chain[3]
      c3 == h.chain[4]
      c4 == h.chain[5]
  IN CASE h.valence = 3 -> {<<l, r, c1>>}
       [] h.valence = 4 /\ h.right_sign = "-" -> {<<l, r, c1>>, <<l, c1, c2>>}
       [] h.valence = 4 /\ h.right_sign # "-" -> {<<l, r, c2>>, <<r, c1, c2>>}
       [] h.valence = 5 /\ h.right_sign = "-" ->
            {<<l, r, c1>>, <<l, c1, c3>>, <<c1, c2, c3>>}
       [] h.valence = 5 /\ h.right_sign # "-" /\ h.left_sign = "-" ->
            {<<l, r, c3>>, <<r, c1, c3>>, <<c1, c2, c3>>}
       [] h.valence = 5 /\ h.right_sign # "-" /\ h.left_sign # "-" ->
            {<<l, r, c2>>, <<r, c1, c2>>, <<l, c2, c3>>}
       [] h.valence = 6 /\ h.right_sign = "-" ->
            {<<l, r, c1>>, <<l, c1, c3>>, <<c1, c2, c3>>, <<l, c3, c4>>}
       [] h.valence = 6 /\ h.right_sign # "-" ->
            {<<r, c1, c2>>, <<r, c2, c4>>, <<c2, c3, c4>>, <<l, r, c4>>}

\* the directed gates <<a, b, target>> of a set of faces
TableGates(T) ==
  UNION {{<<f[1], f[2], f[3]>>, <<f[2], f[3], f[1]>>, <<f[3], f[1], f[2]>>} : f \in T}

\* the gate table g holds the table row of removal h and nothing else on the ring
TableHolds(h, g) ==
  LET tg == TableGates(TableFaces(h))
      ring == Elems(h.chain)
  IN /\ Cardinality(TableFaces(h)) = h.valence - 2
     /\ \A t \in tg : <<t[1], t[2]>> \in DOMAIN g /\ g[<<t[1], t[2]>>] = t[3]
     /\ \A k \in DOMAIN g :
          (k[1] \in ring /\ k[2] \in ring) =>
             \/ <<k[1], k[2], g[k]>> \in tg
             \/ k \in DOMAIN h.gates /\ h.gates[k] = g[k] /\ g[k] # h.front

\* C2: every step of Decimating that removes a vertex of valence 3..6 through
\* gate (left, right), the ring rotated so that it starts at right and ends at
\* left, leaves a gate table that holds the three directed gates of each of
\* the valence - 2 faces of the case-table row, and whose other gates between
\* ring vertices were there before with a target other than the removed vertex
CaseTable ==
  [][(h_last' # h_last /\ h_last'.pass = "decimating"
        /\ h_last'.valence \in 3..6
        /\ h_last'.chain[h_last'.valence] = h_last'.left)
       => TableHolds(h_last', gates')]_vars

\* a valence-6 removal with right signed "-" has just been retriangulated
CaseTableWitness ==
  /\ pc = "decimating"
  /\ h_last.pass = "decimating"
  /\ h_last.valence = 6
  /\ h_last.right_sign = "-"
  /\ h_last.chain[6] = h_last.left
  /\ gates[<<h_last.left, h_last.chain[4]>>] = h_last.chain[5]

\* C3: after every removal by Decimating, Cleaning or Sew every active vertex
\* has a ring as long as its valence
RingValence == \A v \in active_vertices : Len(patches[v]) = valences[v]

\* Sew has removed a vertex after Decimating and Cleaning removed theirs
RingValenceWitness ==
  /\ pc = "sew_loop"
  /\ h_last.pass = "sew"
  /\ obja # <<>>
  /\ \E v \in active_vertices : Len(patches[v]) # Len(h_start.patches[v])

Follows(a, b, c) ==
  \E i \in 1..Len(patches[a]) :
     patches[a][i] = b /\ patches[a][(i % Len(patches[a])) + 1] = c

\* the gate g and the two other gates of its face form a closed triple
Triple(g) ==
  LET a == g[1]
      b == g[2]
      c == gates[g]
  IN /\ <<b, c>> \in DOMAIN gates /\ gates[<<b, c>>] = a
     /\ <<c, a>> \in DOMAIN gates /\ gates[<<c, a>>] = b

\* C5: in every state, for every gate (a, b) with target c the gates (b, c)
\* with target a and (c, a) with target b exist, and b is immediately
\* followed by c in the ring of a
GateRingAgreement ==
  \A g \in DOMAIN gates : Triple(g) /\ Follows(g[1], g[2], gates[g])

RECURSIVE Sum(_, _)
Sum(f, S) ==
  IF S = {} THEN 0
  ELSE LET x == CHOOSE x \in S : TRUE IN f[x] + Sum(f, S \ {x})

\* C6: between passes the valences of the active vertices add up to the
\* number of entries of the gate table
ValenceSum == Between => Sum(valences, active_vertices) = Cardinality(DOMAIN gates)

\* C7: between passes V - E + F, with E a half and F a third of the number of
\* gates, is what it was after preprocessing (both sides multiplied by 6)
EulerConstant ==
  Between => 6 * Cardinality(active_vertices) - Cardinality(DOMAIN gates) = h_chi

\* C8: in every step of a Decimating pass, no two removed vertices were
\* neighbours at the start of the pass, a vertex removed by the step was not
\* tagged conquered before it, and every ring neighbour of a removed vertex
\* is tagged conquered
IndependentSet ==
  [][pc' = "decimating" =>
       /\ \A x \in h_removed' : \A y \in h_removed' :
            Occurs(h_start'.patches[x], y) = 0
       /\ \A x \in h_removed' \ h_removed : x \notin vertices_status
       /\ \A x \in h_removed' : Elems(h_start'.patches[x]) \subseteq vertices_status'
    ]_vars

\* a Decimating pass has run to the end of its queue and removed three vertices
IndependentSetWitness ==
  /\ pc = "decimating"
  /\ fifo = <<>>
  /\ Cardinality(h_removed) >= 3

\* the level runs on the mesh that was read, a connected closed manifold
OnInputMesh == current_it = 0

\* C9: when a Decimating pass on a connected closed manifold mesh has
\* terminated every active vertex is tagged conquered, so none is left
\* untagged with valence <= 6
Maximality ==
  (OnInputMesh /\ ((pc = "decimating" /\ fifo = <<>>) \/ pc = "cleaning")) =>
     \A v \in active_vertices : v \in vertices_status /\ ~IsFree(v, vertices_status)

\* a Decimating pass that removed vertices and met null faces has terminated
MaximalityWitness ==
  /\ pc = "cleaning" /\ OnInputMesh
  /\ h_removed # {}
  /\ \E g \in DOMAIN faces_status : faces_status[g] = "null"
  /\ \E v \in active_vertices : valences[v] <= 6

StartGates == Cardinality(DOMAIN h_start.gates)

\* in a level on a closed manifold mesh a step of the Decimating or Cleaning
\* loop does not raise and keeps the count of dequeued FIFO entries within the
\* first gate and two entries for every gate of the pass start
LoopStep ==
  (OnInputMesh /\ pc \in {"decimating", "cleaning_loop"}) =>
    (pc' # "error" /\ h_steps' <= 2 * StartGates + 1)

\* C11: on a closed manifold mesh no step of the Decimating loop or of the
\* Cleaning loop raises, and the number of FIFO entries a pass dequeues stays
\* within one more than twice the number of gates at its start (six per
\* face), so both loops empty their FIFO
Termination == [][LoopStep]_vars

\* both loops have run dry in one level, each after removing a vertex and
\* after skipping, at least, one gate that already had a status
TerminationWitness ==
  /\ pc = "sew" /\ OnInputMesh
  /\ fifo = <<>>
  /\ h_removed # {}
  /\ obja # <<>>
  /\ h_steps > Cardinality(DOMAIN faces_status)

\* the records the last removal appended to the pass buffer
Emitted == SubSeq(obja_iter, Len(h_last.obja) + 1, Len(obja_iter))

\* C12: the last Decimating removal, of a vertex front of valence v, appended
\* to the pass buffer one v record with the position of front, then the v
\* records f front c[i] c[i+1 mod v], then v - 2 df records whose vertex sets
\* are the v - 2 faces of the case-table row
EmittedRecords ==
  (h_last.pass = "decimating" /\ h_last.chain[h_last.valence] = h_last.left) =>
    LET v == h_last.valence
        new == Emitted
    IN /\ Len(new) = 1 + v + (v - 2)
       /\ new[1] = <<"v", vertices[h_last.front]>>
       /\ \A i \in 1..v :
            new[1 + i] = <<"f", h_last.front, h_last.chain[i], h_last.chain[(i % v) + 1]>>
       /\ \A k \in (v + 2)..Len(new) : new[k][1] = "df"
       /\ {Corners(<<new[k][2], new[k][3], new[k][4]>>) : k \in (v + 2)..Len(new)}
            = {Corners(f) : f \in TableFaces(h_last)}

\* a step inside a Decimating pass keeps every sign already assigned
KeepsSigns ==
  (pc = "decimating" /\ pc' = "decimating") =>
     \A x \in DOMAIN plus_minus :
        x \in DOMAIN plus_minus' /\ plus_minus'[x] = plus_minus[x]

FifoGatesAreKeys ==
  pc \in {"decimating", "cleaning_loop"} =>
    \A k \in 1..Len(fifo) : fifo[k] \in DOMAIN gates

\* no active vertex has valence 3
NoValence3 == \A v \in active_vertices : valences[v] # 3

\* a Cleaning pass called without a vertex of valence 3 hands the driver an
\* empty buffer: the driver goes on to Sew, with the store, the stream and the
\* V counter as they were
CleaningSkips ==
  (pc = "cleaning" /\ NoValence3) =>
    /\ pc' = "sew"
    /\ UNCHANGED <<store, obja, count_v, obj_to_obja>>

\* C15: Cleaning without a vertex of valence 3 is a no-op: gates, rings,
\* valences and the active set stay, the buffer is empty, the V counter keeps
\* its value and the level proceeds to Sew
CleaningNoOp == [][CleaningSkips]_vars

\* every entry of the valence table is above 6; a removed vertex keeps its
\* entry, which is at most 6, so nothing was removed from such a store
HighValence == \A v \in DOMAIN valences : valences[v] > 6

\* C16: on a closed mesh whose valences are all above 6 the level (Decimating,
\* Cleaning, Sew) raises nothing, emits no record, and leaves gates, rings,
\* valences and the active set as they were
Idempotence ==
  HighValence =>
    /\ pc # "error"
    /\ obja = <<>> /\ obja_iter = <<>>
    /\ gates = h_start.gates /\ patches = h_start.patches
    /\ active_vertices = DOMAIN valences
    /\ \A v \in DOMAIN valences : valences[v] = Len(patches[v])

Records(kind) == Cardinality({k \in 1..Len(obja_iter) : obja_iter[k][1] = kind})

\* the first Decimating pass has emptied its FIFO, and nothing has run since
\* but the call of Cleaning
AfterFirstDecimating ==
  /\ current_it = 0
  /\ \/ pc = "decimating" /\ fifo = <<>>
     \/ pc = "cleaning"

\* C18: on the tetrahedron, whatever the first gate, the Decimating pass ends
\* without an exception of its own, having removed exactly one vertex, with
\* three active vertices left and one v, three f and one df record in its buffer
TetrahedronPass ==
  faces = Tetrahedron.faces =>
    /\ (pc = "error" /\ current_it = 0) => (fifo = <<>> /\ Cardinality(h_removed) = 1)
    /\ AfterFirstDecimating =>
         /\ Cardinality(h_removed) = 1
         /\ Cardinality(active_vertices) = 3
         /\ Records("v") = 1 /\ Records("f") = 3 /\ Records("df") = 1

TetrahedronPassWitness ==
  /\ faces = Tetrahedron.faces
  /\ pc = "cleaning"
  /\ Cardinality(h_removed) = 1
  /\ Records("v") = 1 /\ Records("f") = 3 /\ Records("df") = 1

\* the faces the gate table describes, each up to rotation
StoreFaces == {Canon(<<g[1], g[2], gates[g]>>) : g \in DOMAIN gates}

\* C19: on the octahedron, whatever the first gate, the first Decimating pass
\* removes exactly two vertices that were not neighbours, and what is left is
\* a tetrahedron: 4 active vertices of valence 3, 4 faces, 12 gates, every
\* gate with its reverse in the table under a different target
OctahedronPass ==
  (faces = Bipyramid(4).faces /\ AfterFirstDecimating) =>
    /\ Cardinality(h_removed) = 2
    /\ \A x \in h_removed : \A y \in h_removed : Occurs(h_start.patches[x], y) = 0
    /\ Cardinality(active_vertices) = 4
    /\ \A v \in active_vertices : valences[v] = 3
    /\ Cardinality(StoreFaces) = 4
    /\ Cardinality(DOMAIN gates) = 12
    /\ \A g \in DOMAIN gates :
          <<g[2], g[1]>> \in DOMAIN gates /\ gates[<<g[2], g[1]>>] # gates[g]

\* C20: on the icosahedron, whatever the first gate, the first Decimating pass
\* removes 3 or 4 vertices, and on what is left every gate closes its triple
\* and agrees with the ring of its source, every gate has its reverse under a
\* different target, the valence of an active vertex is the length of its
\* ring, and the valences add up to the number of gates
IcosahedronPass ==
  (faces = Icosahedron.faces /\ AfterFirstDecimating) =>
    /\ Cardinality(h_removed) \in {3, 4}
    /\ Cardinality(active_vertices) = 12 - Cardinality(h_removed)
    /\ \A g \in DOMAIN gates :
          /\ Triple(g) /\ Follows(g[1], g[2], gates[g])
          /\ <<g[2], g[1]>> \in DOMAIN gates /\ gates[<<g[2], g[1]>>] # gates[g]
    /\ \A v \in active_vertices :
          /\ valences[v] = Len(patches[v])
          /\ Cardinality(Elems(patches[v])) = Len(patches[v])
    /\ Sum(valences, active_vertices) = Cardinality(DOMAIN gates)

\* the pass has ended on the icosahedron with three vertices removed
IcosahedronPassWitness ==
  /\ faces = Icosahedron.faces
  /\ pc = "cleaning" /\ current_it = 0
  /\ Cardinality(h_removed) = 3
  /\ Cardinality(DOMAIN gates) = 42

\* preprocessing has read every line and has returned or raised
Preprocessed == pc \notin {"read", "order", "rearrange", "zip"}

\* the file that was read is one of the closed manifold meshes
ManifoldInput == [nv |-> Len(vertices), faces |-> faces] \in Meshes

\* the gates of a face list: (a, b), (b, c), (c, a) for every face (a, b, c)
FaceKeys(fs) ==
  UNION {{<<fs[k][1], fs[k][2]>>, <<fs[k][2], fs[k][3]>>, <<fs[k][3], fs[k][1]>>} :
           k \in 1..Len(fs)}

\* C21: preprocessing of a closed manifold face list returns, and the gate
\* table it returns has exactly the keys (a, b), (b, c), (c, a) of the input
\* faces (a, b, c), with the third vertex of the face as value
GateTargets ==
  (Preprocessed /\ ManifoldInput) =>
    /\ pc # "error"
    /\ DOMAIN gates = FaceKeys(faces)
    /\ \A k \in 1..Len(faces) :
          /\ gates[<<faces[k][1], faces[k][2]>>] = faces[k][3]
          /\ gates[<<faces[k][2], faces[k][3]>>] = faces[k][1]
          /\ gates[<<faces[k][3], faces[k][1]>>] = faces[k][2]

\* C22: for the two tetrahedra that share vertex 1, once the patches are
\* ordered there is exactly one new vertex 8 at the position of vertex 1,
\* vertices 1 and 8 have rings of length 3 and valence 3, the gates of the
\* second fan name 8 where they named 1, the rings of 5, 6, 7 hold 8 in the
\* place of 1, and the valences and rings of 2, 3, 4 are those of a tetrahedron
FanDuplication ==
  (faces = TwoTetrahedra.faces /\ pc \notin {"read", "order"}) =>
    /\ Len(vertices) = 8 /\ vertices[8] = vertices[1]
    /\ active_vertices = 1..8
    /\ \A x \in {5, 6, 7} :
          /\ <<x, 8>> \in DOMAIN gates /\ <<8, x>> \in DOMAIN gates
          /\ <<x, 1>> \notin DOMAIN gates /\ <<1, x>> \notin DOMAIN gates
    /\ gates[<<5, 6>>] = 8 /\ gates[<<6, 7>>] = 8 /\ gates[<<7, 5>>] = 8
    /\ \A x \in 1..8 : valences[x] = 3
    /\ pre.lists = {}
    /\ \A x \in 1..8 : Len(patches[x]) = 3
    /\ \A x \in {5, 6, 7} : Occurs(patches[x], 8) = 1 /\ Occurs(patches[x], 1) = 0
    /\ \A x \in {2, 3, 4} : patches[x] = preprocessing(Tetrahedron).patches[x]

\* the next f line names a gate that is a key of the table already
NextLineRepeatsGate ==
  /\ pc = "read"
  /\ pre.lines # <<>>
  /\ FaceKeys(<<Head(pre.lines)>>) \cap DOMAIN gates # {}

\* reading an f line that repeats a gate ends the construction with an error
RejectsLine == NextLineRepeatsGate => pc' = "error"

\* C23: a face that produces a gate the table already holds (a face listed
\* twice, a face of the opposite orientation) is rejected when it is read:
\* the construction fails instead of keeping the target of the later face
DuplicateGatesRejected == [][RejectsLine]_vars

\* the vertex before x in the cyclic ring, at the first place x holds
Before(ring, x) == Pred(ring, IndexOf(ring, x))

\* the step is a removal by Sew: a vertex of valence 2 whose four gates were
\* all in the table
SewRemoves == pc = "sew_loop" /\ pc' = "sew_loop" /\ h_last' # h_last /\ h_last'.pass = "sew"

\* what the removal of v with ring [a, b] leaves behind
SewnVertex ==
  SewRemoves =>
    LET v == h_last'.front
        a == h_last'.chain[1]
        b == h_last'.chain[2]
        new == SubSeq(obja_iter', Len(obja_iter) + 1, Len(obja_iter'))
    IN /\ v \in active_vertices /\ v \notin active_vertices'
       /\ {<<a, v>>, <<v, a>>, <<b, v>>, <<v, b>>} \cap DOMAIN gates' = {}
       /\ <<a, b>> \in DOMAIN gates' /\ <<b, a>> \in DOMAIN gates'
       /\ gates'[<<a, b>>] = Before(patches'[b], a)
       /\ gates'[<<b, a>>] = Before(patches'[a], b)
       /\ valences'[a] = valences[a] - 2 /\ valences'[b] = valences[b] - 2
       /\ Occurs(patches'[a], b) = 1 /\ Occurs(patches'[b], a) = 1
       /\ Len(new) = 4
       /\ new[1] = <<"v", vertices[v]>>
       /\ new[2] = <<"f", v, a, b>>
       /\ new[3][1] = "df" /\ new[4][1] = "df"
       /\ <<new[3][2], new[3][3], new[3][4]>> # <<new[4][2], new[4][3], new[4][4]>>

\* C24: a removal by Sew of a vertex v of valence 2 with ring [a, b] makes v
\* inactive, takes its four gates out, leaves gates (a, b) and (b, a) with the
\* vertex before a in ring(b) and the vertex before b in ring(a) as targets,
\* lowers the valences of a and b by 2, leaves each of a and b once in the
\* ring of the other, and adds one v, one f (v, a, b) and two df records of
\* two different faces to the buffer
SewValence2 == [][SewnVertex]_vars

\* the records of one removal: the v of the vertex, its f records, then df records
RemovalRecords(g, front) ==
  /\ Len(g) >= 1
  /\ g[1] = <<"v", vertices[front]>>
  /\ \E n \in 1..Len(g) :
       /\ \A k \in 2..n : g[k][1] = "f" /\ g[k][2] = front
       /\ \A k \in (n + 1)..Len(g) : g[k][1] = "df"

\* the block of the residual mesh: v records, then f records
ResidualBlock(b) ==
  \E n \in 0..Len(b) :
    /\ \A k \in 1..n : b[k][1] = "v"
    /\ \A k \in (n + 1)..Len(b) : b[k][1] = "f"

\* x is y with something written in front of it
EndsWith(x, y) ==
  Len(x) >= Len(y) /\ SubSeq(x, Len(x) - Len(y) + 1, Len(x)) = y

\* a step of a run that has not raised leaves the stream alone, or puts the
\* whole buffer of the pass that returns, or the residual block, in front of it;
\* it leaves the buffer alone, or writes the records of one removal at its end,
\* or empties it once the stream holds it
StreamStep ==
  pc' # "error" =>
    /\ \/ obja' = obja
       \/ /\ pc \in {"decimating", "cleaning_loop", "sew_loop"}
          /\ pc' \notin {"decimating", "cleaning_loop", "sew_loop"}
          /\ obja' = obja_iter \o obja
          /\ obja_iter' = obja_iter
       \/ /\ pc' = "done"
          /\ EndsWith(obja', obja)
          /\ Len(obja') > Len(obja)
          /\ ResidualBlock(SubSeq(obja', 1, Len(obja') - Len(obja)))
    /\ \/ obja_iter' = obja_iter
       \/ /\ h_last' # h_last
          /\ Len(obja_iter') > Len(obja_iter)
          /\ SubSeq(obja_iter', 1, Len(obja_iter)) = obja_iter
          /\ RemovalRecords(SubSeq(obja_iter', Len(obja_iter) + 1, Len(obja_iter')),
                            h_last'.front)
       \/ /\ obja_iter' = <<>>
          /\ obja' = obja
          /\ SubSeq(obja, 1, Len(obja_iter)) = obja_iter

VRecords == SelectSeq(obja, LAMBDA r : r[1] = "v")

\* main.py 29: the number of vertices preprocessing returned
nb_vertex == pre.index - 1

Retired == (1..Len(valences)) \ active_vertices

\* a step puts no retired vertex back and leaves none in the gate table or
\* in the ring of an active vertex
RetiredStay ==
  /\ Retired \subseteq Retired'
  /\ \A g \in DOMAIN gates' : g[1] \notin Retired' /\ g[2] \notin Retired'
                              /\ gates'[g] \notin Retired'
  /\ \A y \in active_vertices' : Elems(patches'[y]) \cap Retired' = {}

\* C27: a vertex removed by Decimating, Cleaning or Sew is never active
\* again, and in every later state no gate has it as an endpoint or as its
\* target and no ring of an active vertex holds it
RetiredLeave == [][RetiredStay]_vars

\* a level has run to its end: the Sew sweep has visited every vertex,
\* or the driver is back at the head of its loop
CompleteLevel ==
  \/ pc = "sew_loop" /\ sew_todo = <<>>
  \/ pc \in {"level", "done"} /\ current_it >= 1

\* C28: after a complete level (Decimating, Cleaning, Sew) on a closed
\* manifold mesh with all valences at least 3, every active vertex has a
\* valence of at least 3
ValenceAfterLevel ==
  CompleteLevel => \A x \in active_vertices : valences[x] >= 3

\* the step is a removal by Cleaning
CleaningRemoves ==
  pc = "cleaning_loop" /\ h_last' # h_last /\ h_last'.pass = "cleaning"

\* the step takes the first gate of a Cleaning pass from the FIFO
FirstCleaningGate == pc = "cleaning_loop" /\ h_steps = 0 /\ fifo # <<>>

\* the first gate has a vertex of valence 3 as its target and the step removes
\* it; a removal of v with ring [a, b, c] writes v, the three f records and the
\* df of the face (a, b, c), and leaves the three gates of that face
CleanedVertex ==
  /\ FirstCleaningGate =>
       /\ Head(fifo) \in DOMAIN gates
       /\ valences[gates[Head(fifo)]] = 3
       /\ CleaningRemoves
       /\ h_last'.front = gates[Head(fifo)]
       /\ h_last'.front \notin active_vertices'
  /\ CleaningRemoves =>
       LET v == h_last'.front
           a == h_last'.chain[1]
           b == h_last'.chain[2]
           c == h_last'.chain[3]
           new == SubSeq(obja_iter', Len(obja_iter) + 1, Len(obja_iter'))
       IN /\ Len(h_last'.chain) = 3
          /\ v \notin active_vertices'
          /\ gates'[<<a, b>>] = c /\ gates'[<<b, c>>] = a /\ gates'[<<c, a>>] = b
          /\ Len(new) = 5
          /\ new[1] = <<"v", vertices[v]>>
          /\ new[2] = <<"f", v, a, b>>
          /\ new[3] = <<"f", v, b, c>>
          /\ new[4] = <<"f", v, c, a>>
          /\ new[5][1] = "df" /\ {new[5][2], new[5][3], new[5][4]} = {a, b, c}

\* C29: when a vertex of valence 3 is active at the start of Cleaning, the
\* first processed gate has it as its target and it is removed; every vertex
\* v with ring [a, b, c] that Cleaning removes adds one v record, the f records
\* (v,a,b), (v,b,c), (v,c,a) and one df record of the new face (a,b,c) to the
\* buffer, and gates (a,b), (b,c), (c,a) afterwards have targets c, a, b
CleaningRecords == [][CleanedVertex]_vars

\* the step is a removal by Decimating
DecimatingRemoves ==
  pc = "decimating" /\ h_last' # h_last /\ h_last'.pass = "decimating"

\* the pass started on a store whose active vertices all had valence 3 or more
StartedAbove2 ==
  \A x \in active_vertices \cup h_removed : Len(h_start.patches[x]) >= 3

\* a step of the pass leaves the valence of every vertex that it leaves
\* untagged; a removal takes a vertex of valence 3 to 6 and one of the
\* branches of retriangulation writes its f and df records
UnvisitedStep ==
  pc = "decimating" =>
    /\ \A x \in 1..Len(valences) :
         x \notin vertices_status' => valences'[x] = valences[x]
    /\ (DecimatingRemoves /\ StartedAbove2) =>
         LET new == SubSeq(obja_iter', Len(obja_iter) + 1, Len(obja_iter'))
         IN /\ h_last'.valence \in 3..6
            /\ h_last'.valence = Len(h_start.patches[h_last'.front])
            /\ RemovalRecords(new, h_last'.front)
            /\ Cardinality({k \in 1..Len(new) : new[k][1] = "f"}) = h_last'.valence
            /\ \E k \in 1..Len(new) : new[k][1] = "df"

\* C30: during a Decimating pass the valence of a vertex that is still
\* unvisited never changes; when the pass starts with every active valence at
\* 3 or more, every vertex the free-vertex case takes has valence 3, 4, 5 or 6
\* when it is removed and a retriangulation branch runs for it
UnvisitedValence == [][UnvisitedStep]_vars

\* a removal of a vertex of valence 6 late in a pass, with vertices still unvisited
UnvisitedValenceWitness ==
  /\ pc = "decimating"
  /\ h_last.pass = "decimating" /\ h_last.valence = 6
  /\ Cardinality(h_removed) >= 2
  /\ StartedAbove2
  /\ \E x \in active_vertices : x \notin vertices_status

\* C31: every gate that a Decimating pass on a closed manifold mesh takes from
\* its FIFO (the initial gate, the boundary gates a removal appended, the two
\* gates a null-face step appended) is a key of the gate table when it is
\* taken, so the lookup gates[gate] of tools.py 305 finds it
DequeuedGateIsKey ==
  (OnInputMesh /\ pc = "decimating" /\ fifo # <<>>) => Head(fifo) \in DOMAIN gates

\* the gate at the head was appended by a null-face step, after a removal
DequeuedGateIsKeyWitness ==
  /\ OnInputMesh /\ pc = "decimating" /\ fifo # <<>>
  /\ h_removed # {}
  /\ Head(fifo) \in DOMAIN gates
  /\ \E g \in DOMAIN faces_status :
        /\ faces_status[g] = "null"
        /\ g \in DOMAIN gates
        /\ Head(fifo) = NullGates(g, gates[g])[1]

\* the vertices of the gates waiting in the FIFO
FifoVertices == UNION {{fifo[k][1], fifo[k][2]} : k \in 1..Len(fifo)}

\* the gate at the head of the FIFO is about to take the free-vertex case
FreeCaseNext ==
  /\ pc = "decimating" /\ fifo # <<>>
  /\ Head(fifo) \in DOMAIN gates
  /\ Head(fifo) \notin DOMAIN faces_status
  /\ IsFree(gates[Head(fifo)], vertices_status \cup {Head(fifo)[1], Head(fifo)[2]})

\* the parities around one step of the pass
ParityStep ==
  /\ FreeCaseNext => {Head(fifo)[1], Head(fifo)[2]} \subseteq DOMAIN plus_minus
  /\ DecimatingRemoves => Elems(h_last'.chain) \subseteq DOMAIN plus_minus'
  /\ pc' = "decimating" => FifoVertices' \subseteq DOMAIN plus_minus'

\* C32: when the retriangulator is called, left and right of the gate have a
\* parity; when it has returned, every vertex of the ring of the removed vertex
\* has one; every vertex of a gate in the FIFO of Decimating has one
ParityAssigned == [][ParityStep]_vars

\* a removal whose ring had vertices without a parity before the call
ParityAssignedWitness ==
  /\ pc = "decimating" /\ h_last.pass = "decimating"
  /\ h_last.valence >= 5
  /\ Cardinality(Elems(h_last.chain) \ DOMAIN h_last.plus_minus) >= 3
  /\ {h_last.left, h_last.right} \subseteq DOMAIN h_last.plus_minus
  /\ Elems(h_last.chain) \subseteq DOMAIN plus_minus
  /\ fifo # <<>> /\ FifoVertices \subseteq DOMAIN plus_minus

\* C33: when the free-vertex case of Decimating fires for the gate
\* (left, right) with target front, right occurs exactly once in the ring of
\* front, and the ring rotated to start at right ends at left
RotationPrecondition ==
  FreeCaseNext =>
    LET left == Head(fifo)[1]
        right == Head(fifo)[2]
        front == gates[Head(fifo)]
        ring == patches[front]
        chain == Rotate(ring, IndexOf(ring, right))
    IN /\ Occurs(ring, right) = 1
       /\ Len(chain) = valences[front]
       /\ chain[1] = right
       /\ chain[Len(chain)] = left

\* within the first level, where every untagged ring is a ring of the input
\* mesh, the rotation finds right once and ends at left
RotationOnInputMesh == OnInputMesh => RotationPrecondition

\* the step takes the null-face case for the gate at the head of the FIFO
NullCaseNext ==
  /\ pc = "decimating" /\ fifo # <<>>
  /\ Head(fifo) \in DOMAIN gates
  /\ Head(fifo) \notin DOMAIN faces_status
  /\ ~IsFree(gates[Head(fifo)], vertices_status \cup {Head(fifo)[1], Head(fifo)[2]})

\* what a null-face step changes and what it leaves
NullFaceStep ==
  NullCaseNext =>
    LET gate == Head(fifo)
        left == gate[1]
        right == gate[2]
        front == gates[gate]
    IN /\ UNCHANGED <<gates, patches, valences, active_vertices>>
       /\ UNCHANGED <<obja_iter, count_v_iter, obj_to_obja_iter>>
       /\ UNCHANGED <<vertices, faces, obja, count_v, obj_to_obja>>
       /\ faces_status' = DictSet(faces_status, gate, "null")
       /\ plus_minus' = IF front \in DOMAIN plus_minus THEN plus_minus
                        ELSE DictSet(plus_minus, front, "+")
       /\ fifo' = Tail(fifo) \o << <<front, right>>, <<left, front>> >>
       /\ vertices_status' = vertices_status \cup {left, right}
       /\ pc' = "decimating"

\* C34: a Decimating step in the null-face case (target conquered, or
\* unvisited with valence above 6) leaves gates, rings, valences, the active
\* set and the command buffer as they were; it sets faces_status of the gate
\* to 'null', gives the target the parity '+' if it had none, and appends
\* exactly the gates (front, right) and (left, front) to the FIFO
NullFaceFrame == [][NullFaceStep]_vars

\* both kinds of null-face step have happened: a face tagged 'null' whose
\* target has valence above 6 and got its parity from the step, and one whose
\* target was conquered and kept the parity '-' it had
NullFaceFrameWitness ==
  /\ pc = "decimating"
  /\ \E g \in DOMAIN faces_status :
        /\ faces_status[g] = "null" /\ g \in DOMAIN gates
        /\ valences[gates[g]] > 6 /\ gates[g] \notin h_removed
        /\ Len(h_start.patches[gates[g]]) > 6
  /\ \E g \in DOMAIN faces_status :
        /\ faces_status[g] = "null" /\ g \in DOMAIN gates
        /\ gates[g] \in DOMAIN plus_minus /\ plus_minus[gates[g]] = "-"
  /\ Len(fifo) >= 2
  /\ \E g \in DOMAIN faces_status :
        /\ faces_status[g] = "null" /\ g \in DOMAIN gates
        /\ SubSeq(fifo, Len(fifo) - 1, Len(fifo)) = NullGates(g, gates[g])

\* the gate at the head of the FIFO has its face status decided
DecidedNext ==
  pc = "decimating" /\ fifo # <<>> /\ Head(fifo) \in DOMAIN faces_status

\* the gate at the head of the FIFO has been dequeued before in this pass
AgainNext ==
  pc = "decimating" /\ fifo # <<>> /\ Head(fifo) \in h_dequeued

\* one step of the pass on a gate that is decided or comes for the second time
DuplicateStep ==
  /\ DecidedNext =>
       /\ UNCHANGED <<store, buffer, driver>>
       /\ UNCHANGED <<faces_status, plus_minus, vertices_status>>
       /\ fifo' = Tail(fifo)
       /\ pc' = "decimating"
  /\ AgainNext =>
       /\ ~DecimatingRemoves
       /\ UNCHANGED <<active_vertices, obja_iter, count_v_iter, obj_to_obja_iter>>
       /\ Head(fifo) \in DOMAIN gates
       /\ Head(fifo) \in DOMAIN faces_status \/ gates[Head(fifo)] \in vertices_status

\* C35: a gate that Decimating dequeues after its face status is decided
\* changes nothing in the store or the stream and appends nothing to the FIFO;
\* a gate that comes out of the FIFO a second time removes no vertex: its face
\* is decided, or its target is conquered
DuplicatesHarmless == [][DuplicateStep]_vars

\* within the first level the steps on decided and on repeated gates are as
\* C35 has them
DuplicateStepOnInputMesh == OnInputMesh => DuplicateStep

DuplicatesOnInputMesh == [][DuplicateStepOnInputMesh]_vars

\* the gate at the head of the FIFO of Cleaning is about to take the
\* walk-through case: not done, its face undecided, its target untagged with a
\* valence other than 3 and at most 6
WalkNext ==
  /\ pc = "cleaning_loop" /\ fifo # <<>>
  /\ Head(fifo) \notin done
  /\ Head(fifo) \in DOMAIN gates
  /\ Head(fifo) \notin DOMAIN faces_status
  /\ valences[gates[Head(fifo)]] # 3
  /\ valences[gates[Head(fifo)]] <= 6
  /\ gates[Head(fifo)] \notin vertices_status

\* (b, a) for an edge a -> b of the cyclic ring
IsRingGate(ring, g) ==
  \E k \in 1..Len(ring) : g = <<ring[(k % Len(ring)) + 1], ring[k]>>

\* what a step of Cleaning removes, and what a walk-through step changes
CleaningCases ==
  /\ (pc = "cleaning_loop" /\ active_vertices' # active_vertices) =>
       \E x \in active_vertices :
          /\ active_vertices' = active_vertices \ {x}
          /\ valences[x] = 3
          /\ x \notin vertices_status
  /\ WalkNext =>
       LET ring == patches[gates[Head(fifo)]]
           new == SubSeq(fifo', Len(fifo), Len(fifo'))
       IN /\ UNCHANGED <<gates, patches, valences, active_vertices, vertices, faces>>
          /\ UNCHANGED <<buffer, driver>>
          /\ pc' # "error" =>
               /\ fifo' = Tail(fifo) \o new
               /\ Len(new) = Len(ring) - 1
               /\ \A k \in 1..Len(new) : IsRingGate(ring, new[k])
               /\ faces_status' = MarkConquered(faces_status, new)

\* C36: Cleaning removes only vertices of valence exactly 3 that are unvisited
\* when they are removed; its walk-through case changes no gate, ring,
\* valence, active flag or stream record, it appends ring gates to the FIFO
\* and marks face statuses
CleaningRemovesValence3 == [][CleaningCases]_vars

\* a walk-through step has just run round a ring of 4 to 6 vertices, after a
\* removal
CleaningRemovesValence3Witness ==
  /\ pc = "cleaning_loop" /\ h_removed # {}
  /\ \E x \in active_vertices \ vertices_status :
        /\ valences[x] \in 4..6
        /\ Len(fifo) >= valences[x] - 1
        /\ \E i \in 1..Len(patches[x]) :
              LET gs == RingGates(Rotate(patches[x], i))
              IN /\ SubSeq(fifo, Len(fifo) - Len(gs) + 1, Len(fifo)) = gs
                 /\ \A k \in 1..Len(gs) :
                       /\ <<gs[k][2], gs[k][1]>> \in DOMAIN faces_status
                       /\ faces_status[<<gs[k][2], gs[k][1]>>] = "conquered"

\* a removal by Cleaning through the gate (left, right), t the third vertex of
\* the ring: the faces tagged are those behind (t, right) and (left, t), and
\* the four gates appended are the outer gates of these two faces
FarFacesStep ==
  CleaningRemoves =>
    LET left == h_last'.left
        right == h_last'.right
        rest == Elems(h_last'.chain) \ {left, right}
        new == SubSeq(fifo', Len(fifo') - 3, Len(fifo'))
    IN /\ Cardinality(rest) = 1
       /\ LET t == CHOOSE x \in rest : TRUE
          IN /\ faces_status' = DictSet(DictSet(faces_status, <<t, right>>, "conquered"),
                                        <<left, t>>, "conquered")
             /\ Len(fifo') >= 4
             /\ {<<t, right>>, <<left, t>>} \subseteq DOMAIN gates'
             /\ Elems(new) = Elems(NullGates(<<t, right>>, gates'[<<t, right>>]))
                               \cup Elems(NullGates(<<left, t>>, gates'[<<left, t>>]))
             /\ (<<right, left>> \in DOMAIN faces_status') =>
                   (<<right, left>> \in DOMAIN faces_status)

\* C37: when Cleaning removes a vertex of valence 3 through the gate
\* (left, right), with t the third vertex of its ring, the two gates it tags
\* 'conquered' are (t, right) and (left, t), the four gates it appends are the
\* outer gates of those two faces, and the face behind (right, left) is not
\* touched, wherever left and right stand in the stored ring
FarFaces == [][FarFacesStep]_vars

\* one step of a running Cleaning pass: no gate of the FIFO touches a vertex
\* the pass has removed; a gate that is in done is dropped and nothing else
\* changes; a gate that is not in done is a key of the gate table and joins
\* done
CleaningHygieneStep ==
  pc = "cleaning_loop" =>
    /\ \A k \in 1..Len(fifo) : fifo[k][1] \notin h_removed /\ fifo[k][2] \notin h_removed
    /\ fifo # <<>> =>
         /\ Head(fifo) \in done =>
              /\ UNCHANGED <<store, buffer, driver, faces_status, vertices_status, done>>
              /\ fifo' = Tail(fifo)
         /\ Head(fifo) \notin done =>
              /\ Head(fifo) \in DOMAIN gates
              /\ pc' # "error" => done' = done \cup {Head(fifo)}

\* C38: in every state of a Cleaning pass the FIFO holds no gate with an
\* endpoint that this pass has removed; each gate is processed at most once in
\* a pass; every gate that is processed is a key of the gate table when it is
\* dequeued
CleaningHygiene == [][CleaningHygieneStep]_vars

\* after a removal, a gate that has been processed is at the head of the FIFO
\* again and a gate that has not been waits behind it
CleaningHygieneWitness ==
  /\ pc = "cleaning_loop" /\ h_removed # {}
  /\ Len(fifo) >= 2
  /\ Head(fifo) \in done
  /\ \E k \in 2..Len(fifo) : fifo[k] \notin done /\ fifo[k] \in DOMAIN gates

\* Sew is about to examine a vertex of valence 2
SewExamines ==
  pc = "sew_loop" /\ sew_todo # <<>> /\ valences[Head(sew_todo)] = 2

\* the removal of v with ring [a, b] has been carried out to its end
SewCompletes(v) ==
  /\ Len(patches[v]) = 2
  /\ LET a == patches[v][1]
         b == patches[v][2]
         new == SubSeq(obja_iter', Len(obja_iter) + 1, Len(obja_iter'))
     IN /\ pc' = "sew_loop"
        /\ v \notin active_vertices'
        /\ {<<a, v>>, <<v, a>>, <<b, v>>, <<v, b>>} \cap DOMAIN gates' = {}
        /\ <<a, b>> \in DOMAIN gates' /\ <<b, a>> \in DOMAIN gates'
        /\ Len(patches'[a]) = Len(patches[a]) - 2
        /\ Len(patches'[b]) = Len(patches[b]) - 2
        /\ valences'[a] = valences[a] - 2 /\ valences'[b] = valences[b] - 2
        /\ Len(new) = 4
        /\ new[1][1] = "v" /\ new[2][1] = "f" /\ new[3][1] = "df" /\ new[4][1] = "df"

\* the vertex is removed to the end, or nothing of the store and the buffer
\* has changed; it is never inactive with a gate of its own left in the table
SewExaminesStep ==
  SewExamines =>
    LET v == Head(sew_todo)
    IN /\ \/ SewCompletes(v)
          \/ UNCHANGED <<active_vertices, gates, patches, valences,
                         obja_iter, count_v_iter, obj_to_obja_iter>>
       /\ v \notin active_vertices' =>
            \A g \in DOMAIN gates' : g[1] # v /\ g[2] # v

\* C39: for each vertex of valence 2 that Sew examines, either the removal
\* completes (the vertex inactive, its four gates deleted, the rings and
\* valences of its two neighbours updated, the two direct gates installed, a
\* v, an f and two df records appended) or the active set, the gates, the
\* rings, the valences and the command buffer are exactly as before; a missing
\* gate never leaves the vertex inactive with gates of its own in the table
SewAllOrNothing == [][SewExaminesStep]_vars

\* the vertices whose ring holds a vertex more than once
Pinched == {u \in 1..Len(patches) : Cardinality(Elems(patches[u])) # Len(patches[u])}

\* the sweep of Sew is over and the pinch step is next
PinchNext == pc = "sew_loop" /\ sew_todo = <<>>

\* the pinch step: every detected vertex is the recorded repeat of its own
\* recorded repeat, the step ends without an exception, the connectivity and
\* the buffer are as before, the stream gets the buffer and nothing else, and
\* the vertex list grows by two positions for every pair
PinchStep ==
  PinchNext =>
    /\ \A u \in Pinched :
         /\ SmallestRepeated(patches[u]) \in Pinched
         /\ SmallestRepeated(patches[SmallestRepeated(patches[u])]) = u
    /\ pc' # "error"
    /\ UNCHANGED <<gates, patches, valences, active_vertices>>
    /\ UNCHANGED <<obja_iter, count_v_iter, obj_to_obja_iter>>
    /\ obja' = obja_iter \o obja
    /\ Len(vertices') = Len(vertices) + Cardinality(Pinched)
    /\ SubSeq(vertices', 1, Len(vertices)) = vertices

\* C40: the pinch step of Sew completes and leaves the connectivity alone:
\* after the sweep, whenever the ring of u repeats w the ring of w is recorded
\* as repeating u, so taking the pinches in pairs never misses a partner; the
\* step changes no gate, ring, valence or active flag and writes no record, it
\* appends two positions for every pinch pair to the vertex list
PinchCompletes == [][PinchStep]_vars

====
